---------------------------- MODULE Spec2Model ----------------------------
(***************************************************************************)
(* Creator Fusion YouTube analyzer: the evaluation core (analytics.js,     *)
(* authenticity.js, rate-card.js) as TLA+ operators, and one call harness  *)
(* per component.  A behaviour of a component's specification is one call: *)
(* the initial state holds the arguments, the action applies the function. *)
(*                                                                         *)
(* Numbers.  JavaScript doubles are modelled by exact rationals <<n, d>>   *)
(* with d > 0, kept in lowest terms; Math.round is round-half-up on them.  *)
(* Percentages that the code rounds to two decimals (r2) are carried in    *)
(* hundredths.  Strings the code inspects character by character are       *)
(* sequences of one-character strings.                                     *)
(***************************************************************************)
EXTENDS Integers, Sequences, FiniteSets, TLC

\* One call of an exported function: its name, its arguments, its result,
\* and whether it has returned.
VARIABLES fn, args, ret, done

\* Module-level state of sponsorship.js: PROMO_CODE_REGEX.lastIndex (the
\* pattern has the g flag).  seen is the history of the calls completed so
\* far, as records [fn, args, ret].
VARIABLES lastIndex, seen

\* The batch loop of main.js: the channels of the input, the number of
\* channels the loop has finished, its three counters, the records pushed to
\* the dataset, and where the loop stands ("running", "ended" after the last
\* channel, "fatal" when an exception left it).  attempted is the history of
\* the calls of processChannel; lostWrites counts the failure records whose
\* push was rejected.
VARIABLES channels, cursor, processed, skipped, failed, dataset, loop, attempted, lostWrites

\* A YouTubeClient: its two counters and the call of _request in progress.
\* succeeded is the history of the quota costs of the requests that
\* returned; calls counts the calls of _request.
VARIABLES quotaUsed, requestCount, request, succeeded, calls

\* The client's handle cache (_channelIdCache, a Map from lower-cased
\* handles to a channel id or null), the call of resolveChannelId in
\* progress, and the history of the calls of resolveChannelId that ended.
VARIABLES channelIdCache, lookup, lookups

\* The call of getRecentVideoIds in progress: its loop variables and what
\* it asked for so far.
VARIABLE paging

callVars == <<fn, args, ret, done>>
moduleVars == <<lastIndex, seen>>
batchVars == <<channels, cursor, processed, skipped, failed, dataset, loop, attempted, lostWrites>>
resolveVars == <<channelIdCache, lookup, lookups>>
clientVars == <<quotaUsed, requestCount, request, succeeded, calls, resolveVars, paging>>
stateVars == <<moduleVars, batchVars, clientVars>>
vars == <<callVars, stateVars>>

\* no call of _request in progress
NoRequest == [state |-> "none"]

\* no call of resolveChannelId in progress
NoLookup == [state |-> "idle"]

\* no call of getRecentVideoIds in progress
NoPaging == [state |-> "idle"]

\* the state outside the calls, as the modules load and before main runs
ModuleIdle ==
    /\ lastIndex = 0
    /\ seen = {}

BatchIdle ==
    /\ channels = <<>>
    /\ cursor = 0
    /\ processed = 0
    /\ skipped = 0
    /\ failed = 0
    /\ dataset = <<>>
    /\ loop = "running"
    /\ attempted = <<>>
    /\ lostWrites = 0

\* new YouTubeClient(apiKey)
ClientIdle ==
    /\ quotaUsed = 0
    /\ requestCount = 0
    /\ request = NoRequest
    /\ succeeded = <<>>
    /\ calls = 0
    /\ channelIdCache = <<>>
    /\ lookup = NoLookup
    /\ lookups = <<>>
    /\ paging = NoPaging

StateIdle == ModuleIdle /\ BatchIdle /\ ClientIdle

\* The value of ret before the call returns.
NoResult == [t |-> "pending"]

-----------------------------------------------------------------------------
(* Integer and rational helpers                                            *)

Min(a, b) == IF a <= b THEN a ELSE b
Max(a, b) == IF a >= b THEN a ELSE b
Abs(a) == IF a < 0 THEN -a ELSE a

RECURSIVE Gcd(_, _)
Gcd(a, b) == IF b = 0 THEN a ELSE Gcd(b, a % b)

\* n/d in lowest terms, d > 0.
Q(n, d) ==
    LET g == Gcd(Abs(n), d)
    IN  IF g = 0 THEN <<0, 1>> ELSE <<n \div g, d \div g>>

QInt(n) == <<n, 1>>

QAdd(x, y) ==
    LET g == Gcd(x[2], y[2])
    IN  Q(x[1] * (y[2] \div g) + y[1] * (x[2] \div g), (x[2] \div g) * y[2])

\* Cross-reduced product: the factors are in lowest terms, so is the result.
QMul(x, y) ==
    LET g1 == Gcd(Abs(x[1]), y[2])
        g2 == Gcd(Abs(y[1]), x[2])
        a1 == IF g1 = 0 THEN 0 ELSE x[1] \div g1
        d2 == IF g1 = 0 THEN 1 ELSE y[2] \div g1
        a2 == IF g2 = 0 THEN 0 ELSE y[1] \div g2
        d1 == IF g2 = 0 THEN 1 ELSE x[2] \div g2
    IN  Q(a1 * a2, d1 * d2)

QLe(x, y) == x[1] * y[2] <= y[1] * x[2]
QLt(x, y) == x[1] * y[2] < y[1] * x[2]
QMin(x, y) == IF QLe(x, y) THEN x ELSE y
QMax(x, y) == IF QLe(y, x) THEN x ELSE y

\* Math.round: the nearest integer, halves towards +Infinity.
MathRound(x) == (2 * x[1] + x[2]) \div (2 * x[2])

-----------------------------------------------------------------------------
(* Raw JSON values.  undefined, or a string with an optional leading       *)
(* decimal integer (what parseInt reads) and possibly trailing text.       *)

Undefined == [t |-> "undefined"]
\* "1200" is StrNum(1200), "12abc" is StrLead(12), "abc" is StrText
StrNum(n) == [t |-> "str", digits |-> TRUE, n |-> n, junk |-> FALSE]
StrLead(n) == [t |-> "str", digits |-> TRUE, n |-> n, junk |-> TRUE]
StrText == [t |-> "str", digits |-> FALSE, n |-> 0, junk |-> TRUE]

\* parseInt(val, 10), with NaN (no leading digits, or undefined) mapped to 0
safeInt(val) ==
    IF val.t = "str" /\ val.digits THEN val.n ELSE 0

-----------------------------------------------------------------------------
(* Tier classifier and composite score (analytics.js)                      *)

\* Mutant: the Micro range starts one subscriber late, leaving 10,000 uncovered.
AUDIENCE_TIERS_Gap ==
    << [name |-> "Nano",     min |-> 0,       max |-> 9999,   inf |-> FALSE],
       [name |-> "Micro",    min |-> 10001,   max |-> 49999,  inf |-> FALSE],
       [name |-> "Mid-Tier", min |-> 50000,   max |-> 499999, inf |-> FALSE],
       [name |-> "Macro",    min |-> 500000,  max |-> 999999, inf |-> FALSE],
       [name |-> "Mega",     min |-> 1000000, max |-> 0,      inf |-> TRUE] >>

AUDIENCE_TIERS ==
    << [name |-> "Nano",     min |-> 0,       max |-> 9999,   inf |-> FALSE],
       [name |-> "Micro",    min |-> 10000,   max |-> 49999,  inf |-> FALSE],
       [name |-> "Mid-Tier", min |-> 50000,   max |-> 499999, inf |-> FALSE],
       [name |-> "Macro",    min |-> 500000,  max |-> 999999, inf |-> FALSE],
       [name |-> "Mega",     min |-> 1000000, max |-> 0,      inf |-> TRUE] >>

\* good and great in tenths of a percent point
ENGAGEMENT_BENCHMARKS ==
    [n \in {"Nano", "Micro", "Mid-Tier", "Macro", "Mega"} |->
        CASE n = "Nano"     -> [good |-> 80, great |-> 120]
          [] n = "Micro"    -> [good |-> 50, great |-> 80]
          [] n = "Mid-Tier" -> [good |-> 30, great |-> 50]
          [] n = "Macro"    -> [good |-> 20, great |-> 35]
          [] n = "Mega"     -> [good |-> 15, great |-> 25]]

\* the predicate of the find: subscribers >= t.min && subscribers <= t.max
InTier(t, subscribers) ==
    subscribers >= t.min /\ (t.inf \/ subscribers <= t.max)

\* Array.prototype.find: the index of the first tier containing subscribers,
\* 0 when there is none (undefined)
FindTier(subscribers) ==
    LET hits == {i \in 1..Len(AUDIENCE_TIERS) : InTier(AUDIENCE_TIERS[i], subscribers)}
    IN  IF hits = {} THEN 0 ELSE CHOOSE i \in hits : \A j \in hits : i <= j

classifyAudienceTier(subscribers) ==
    LET i == FindTier(subscribers)
    IN  IF i # 0 THEN AUDIENCE_TIERS[i] ELSE AUDIENCE_TIERS[1]

\* Mutant: the lower bounds taken as exclusive.
scoreToGrade_Exclusive(s) ==
    IF s > 90 THEN "A+"
    ELSE IF s > 80 THEN "A"
    ELSE IF s > 70 THEN "B+"
    ELSE IF s > 60 THEN "B"
    ELSE IF s > 50 THEN "C+"
    ELSE IF s > 40 THEN "C"
    ELSE IF s > 30 THEN "D"
    ELSE "F"

scoreToGrade(s) ==
    IF s >= 90 THEN "A+"
    ELSE IF s >= 80 THEN "A"
    ELSE IF s >= 70 THEN "B+"
    ELSE IF s >= 60 THEN "B"
    ELSE IF s >= 50 THEN "C+"
    ELSE IF s >= 40 THEN "C"
    ELSE IF s >= 30 THEN "D"
    ELSE "F"

clamp(n, a, b) == QMin(QMax(n, a), b)
Clamp100(x) == clamp(x, QInt(0), QInt(100))

\* Mutant: the middle piece starts at 50, a drop of 10 points at 'good'.
EngScore_DropAtGood(er, bench) ==
    IF er >= 10 * bench.great
        THEN QAdd(QInt(90), QMin(QInt(10), Q(2 * (er - 10 * bench.great), 100)))
    ELSE IF er >= 10 * bench.good
        THEN QAdd(QInt(50), Q(4 * (er - 10 * bench.good), bench.great - bench.good))
    ELSE IF er > 0
        THEN Q(6 * er, bench.good)
    ELSE QInt(0)

\* 1. Engagement: er in hundredths of a percent point, bench in tenths
EngScore(er, bench) ==
    IF er >= 10 * bench.great
        THEN QAdd(QInt(90), QMin(QInt(10), Q(2 * (er - 10 * bench.great), 100)))
    ELSE IF er >= 10 * bench.good
        THEN QAdd(QInt(60), Q(3 * (er - 10 * bench.good), bench.great - bench.good))
    ELSE IF er > 0
        THEN Q(6 * er, bench.good)
    ELSE QInt(0)

\* 3. Frequency: ppw in hundredths of a post per week
FreqScore(ppw) ==
    IF ppw >= 200 /\ ppw <= 500
        THEN QAdd(QInt(90), QMin(QInt(10), Q(3 * (ppw - 200), 100)))
    ELSE IF ppw > 500
        THEN QMax(QInt(70), Q(10000 - 5 * (ppw - 500), 100))
    ELSE IF ppw >= 100
        THEN QAdd(QInt(50), Q(40 * (ppw - 100), 100))
    ELSE IF ppw >= 25
        THEN QMin(QInt(50), Q(200 * ppw, 100))
    ELSE IF ppw > 0
        THEN QInt(10)
    ELSE QInt(0)

\* 4. View-to-subscriber ratio: vsr in hundredths of a percent point
VsScore(vsr) ==
    IF vsr >= 3000
        THEN QAdd(QInt(90), QMin(QInt(10), Q(vsr - 3000, 200)))
    ELSE IF vsr >= 1500
        THEN QAdd(QInt(60), Q(30 * (vsr - 1500), 1500))
    ELSE IF vsr > 0
        THEN Q(60 * vsr, 1500)
    ELSE QInt(0)

\* 5. Audience reach
AudScore(subscribers) ==
    IF subscribers >= 1000000 THEN 95
    ELSE IF subscribers >= 500000 THEN 85
    ELSE IF subscribers >= 100000 THEN 75
    ELSE IF subscribers >= 50000 THEN 65
    ELSE IF subscribers >= 10000 THEN 50
    ELSE IF subscribers >= 1000 THEN 30
    ELSE 10

\* the weights 0.35, 0.20, 0.15, 0.15, 0.15 in twentieths
WeightedSum(eng, con, freq, vs, aud) ==
    QAdd(QMul(Clamp100(eng), Q(7, 20)),
    QAdd(QMul(Clamp100(con), Q(4, 20)),
    QAdd(QMul(Clamp100(freq), Q(3, 20)),
    QAdd(QMul(Clamp100(vs), Q(3, 20)),
         QMul(Clamp100(aud), Q(3, 20))))))

calculateCreatorFusionScore(analytics, channelStats) ==
    LET subscribers == safeInt(channelStats.subscriberCount)
        tier        == classifyAudienceTier(subscribers)
        bench       == ENGAGEMENT_BENCHMARKS[tier.name]
        engScore    == EngScore(analytics.engagementRate, bench)
        conScore    == QInt(analytics.postingConsistency)
        freqScore   == FreqScore(analytics.postsPerWeek)
        vsScore     == VsScore(analytics.viewToSubRatio)
        audScore    == QInt(AudScore(subscribers))
        score       == MathRound(WeightedSum(engScore, conScore, freqScore, vsScore, audScore))
        grade       == scoreToGrade(score)
    IN  [ score |-> Clamp100(QInt(score))[1],
          grade |-> grade,
          tier  |-> tier.name,
          breakdown |->
            [ engagement     |-> MathRound(Clamp100(engScore)),
              consistency    |-> MathRound(Clamp100(conScore)),
              frequency      |-> MathRound(Clamp100(freqScore)),
              viewToSubRatio |-> MathRound(Clamp100(vsScore)),
              audienceSize   |-> MathRound(Clamp100(audScore)) ] ]

-----------------------------------------------------------------------------
(* Calls of the tier classifier and of the score engine                    *)

\* How far around each breakpoint the subscriber counts are sampled.
SubsDelta == 8

TierBreakpoints == {0, 1000, 10000, 50000, 100000, 500000, 1000000}

\* -1 is the only value for which the find fails (what the ?? default is for)
SubsSamples ==
    {-1, 500, 25000, 250000, 750000, 5000000}
    \cup {n \in {b + d : b \in TierBreakpoints, d \in (0 - SubsDelta)..SubsDelta} : n >= 0}

ScoreSubsSamples ==
    {Undefined, StrText, StrLead(12)}
    \cup {StrNum(n) : n \in {0, 500, 1000, 9999, 10000, 50000, 100000, 500000, 1000000}}

\* rates in hundredths, as r2 leaves them
ErSamples == {0, 1, 75, 149, 150, 151, 200, 250, 300, 425, 500, 800, 1199, 1200, 1700, 3000}
PpwSamples == {0, 10, 24, 25, 50, 99, 100, 150, 200, 350, 500, 501, 1100, 3000}
VsrSamples == {0, 1, 750, 1499, 1500, 2250, 3000, 5000, 20000}
ConSamples == {0, 29, 30, 60, 87, 100}

AnalyticsSamples ==
    [engagementRate : ErSamples, postingConsistency : ConSamples,
     postsPerWeek : PpwSamples, viewToSubRatio : VsrSamples]

InitScore ==
    /\ StateIdle
    /\ done = FALSE
    /\ ret = NoResult
    /\ \/ /\ fn = "classifyAudienceTier"
          /\ args \in [subscribers : SubsSamples]
       \/ /\ fn = "calculateCreatorFusionScore"
          /\ args \in [analytics : AnalyticsSamples,
                       channelStats : [subscriberCount : ScoreSubsSamples]]

ClassifyTier ==
    /\ ~done
    /\ fn = "classifyAudienceTier"
    /\ ret' = classifyAudienceTier(args.subscribers)
    /\ done' = TRUE
    /\ UNCHANGED <<fn, args>>
    /\ UNCHANGED stateVars

CalcScore ==
    /\ ~done
    /\ fn = "calculateCreatorFusionScore"
    /\ ret' = calculateCreatorFusionScore(args.analytics, args.channelStats)
    /\ done' = TRUE
    /\ UNCHANGED <<fn, args>>
    /\ UNCHANGED stateVars

NextScore == ClassifyTier \/ CalcScore

SpecScore == InitScore /\ [][NextScore]_vars

\* C1: calculateCreatorFusionScore returns an integer score in 0..100 and the
\* grade given by the inclusive lower bounds 90/80/70/60/50/40/30 applied to
\* that returned score.
C1_ScoreRangeAndGrade ==
    (done /\ fn = "calculateCreatorFusionScore") =>
        /\ ret.score \in 0..100
        /\ (ret.grade = "A+") <=> (ret.score >= 90)
        /\ (ret.grade = "A")  <=> (ret.score >= 80 /\ ret.score < 90)
        /\ (ret.grade = "B+") <=> (ret.score >= 70 /\ ret.score < 80)
        /\ (ret.grade = "B")  <=> (ret.score >= 60 /\ ret.score < 70)
        /\ (ret.grade = "C+") <=> (ret.score >= 50 /\ ret.score < 60)
        /\ (ret.grade = "C")  <=> (ret.score >= 40 /\ ret.score < 50)
        /\ (ret.grade = "D")  <=> (ret.score >= 30 /\ ret.score < 40)
        /\ (ret.grade = "F")  <=> (ret.score < 30)

\* a score on a grade boundary: 80 is an A
C1_Witness ==
    done /\ fn = "calculateCreatorFusionScore" /\ ret.score = 80 /\ ret.grade = "A"

\* C2: for every n >= 0 exactly one tier range contains n, the find succeeds
\* (the Nano default is not taken) and the tier returned is the one of the
\* documented ranges.
C2_TierPartition ==
    (done /\ fn = "classifyAudienceTier" /\ args.subscribers >= 0) =>
        LET n == args.subscribers
        IN  /\ Cardinality({i \in 1..Len(AUDIENCE_TIERS) : InTier(AUDIENCE_TIERS[i], n)}) = 1
            /\ FindTier(n) # 0
            /\ ret.name = (IF n <= 9999 THEN "Nano"
                           ELSE IF n <= 49999 THEN "Micro"
                           ELSE IF n <= 499999 THEN "Mid-Tier"
                           ELSE IF n <= 999999 THEN "Macro"
                           ELSE "Mega")

\* the first count of the Macro range
C2_Witness ==
    done /\ fn = "classifyAudienceTier" /\ args.subscribers = 500000 /\ ret.name = "Macro"

-----------------------------------------------------------------------------
(* Video normalizer (analytics.js): parseDuration and parseVideos          *)

Digits == <<"0", "1", "2", "3", "4", "5", "6", "7", "8", "9">>
IsDigit(c) == \E i \in 1..Len(Digits) : Digits[i] = c
DigitVal(c) == (CHOOSE i \in 1..Len(Digits) : Digits[i] = c) - 1

\* parseInt(text, 10) of a run of decimal digits
RECURSIVE ParseDigits(_)
ParseDigits(cs) ==
    IF cs = <<>> THEN 0
    ELSE 10 * ParseDigits(SubSeq(cs, 1, Len(cs) - 1)) + DigitVal(cs[Len(cs)])

\* the length of the run of digits of s that starts at pos (\d+ is greedy)
RECURSIVE DigitRun(_, _)
DigitRun(s, pos) ==
    IF pos <= Len(s) /\ IsDigit(s[pos]) THEN 1 + DigitRun(s, pos + 1) ELSE 0

\* One optional group (?:(\d+)X)? tried at pos: digits followed by the unit
\* letter, else the group matches nothing and its capture is undefined
\* (read as '0' by the || '0').
Group(s, pos, unit) ==
    LET k == DigitRun(s, pos)
    IN  IF k >= 1 /\ pos + k <= Len(s) /\ s[pos + k] = unit
        THEN [val |-> ParseDigits(SubSeq(s, pos, pos + k - 1)), next |-> pos + k + 1]
        ELSE [val |-> 0, next |-> pos]

\* iso.match(/PT(?:(\d+)H)?(?:(\d+)M)?(?:(\d+)S)?/): the first "PT" of the
\* text, then the three optional groups; no "PT", no match, 0.
parseDuration(iso) ==
    LET starts == {i \in 1..(Len(iso) - 1) : iso[i] = "P" /\ iso[i + 1] = "T"}
    IN  IF starts = {} THEN 0
        ELSE LET p0 == (CHOOSE i \in starts : \A j \in starts : i <= j) + 2
                 h  == Group(iso, p0, "H")
                 m  == Group(iso, h.next, "M")
                 sc == Group(iso, m.next, "S")
             IN  h.val * 3600 + m.val * 60 + sc.val

\* new Date(text): the instants of the date strings used, in hours since the
\* epoch; any other text gives an Invalid Date (getTime() is NaN).
DateTable ==
    [text \in {"1970-01-01T00:00:00Z", "2025-01-01T00:00:00Z",
               "2025-01-15T00:00:00Z", "2025-01-15T12:00:00Z"} |->
        CASE text = "1970-01-01T00:00:00Z" -> 0
          [] text = "2025-01-01T00:00:00Z" -> 482136
          [] text = "2025-01-15T00:00:00Z" -> 482472
          [] text = "2025-01-15T12:00:00Z" -> 482484]

DateStr(text) == [t |-> "str", text |-> text]

\* new Date(x) for x a string, or the number 0 when both fields are nullish
NewDate(raw) ==
    IF raw.t = "undefined" THEN [nan |-> FALSE, time |-> 0]
    ELSE IF raw.text \in DOMAIN DateTable THEN [nan |-> FALSE, time |-> DateTable[raw.text]]
    ELSE [nan |-> TRUE, time |-> 0]

\* obj.field: a property the object does not have reads as undefined
Field(obj, field) == IF field \in DOMAIN obj THEN obj[field] ELSE Undefined

\* obj?.field
Opt(obj, field) == IF obj.t = "undefined" THEN Undefined ELSE Field(obj, field)

\* {}
EmptyObject == [t |-> "obj"]

\* a ?? b
Coalesce(a, b) == IF a.t = "undefined" THEN b ELSE a

\* Mutant: the Invalid Date guard never fires.
DateIsNaN_Never(d) == FALSE

\* Number.isNaN(publishedAt.getTime())
DateIsNaN(d) == d.nan

\* Mutant: the zero-duration guard dropped.
IsShort_NoZeroGuard(durationSeconds) == durationSeconds <= 60

IsShort(durationSeconds) == durationSeconds > 0 /\ durationSeconds <= 60

Null == [t |-> "null"]

\* the callback of the map: one raw record to a ParsedVideo, or null
parseVideo(v) ==
    LET stats       == Coalesce(Field(v, "statistics"), EmptyObject)
        views       == safeInt(Field(stats, "viewCount"))
        likes       == safeInt(Field(stats, "likeCount"))
        comments    == safeInt(Field(stats, "commentCount"))
        publishedAt == NewDate(Coalesce(Opt(Field(v, "snippet"), "publishedAt"),
                                        Opt(Field(v, "contentDetails"), "videoPublishedAt")))
        duration    == Coalesce(Opt(Field(v, "contentDetails"), "duration"),
                                [t |-> "str", chars |-> <<"P", "T", "0", "S">>])
        durationSeconds == parseDuration(duration.chars)
    IN  IF DateIsNaN(publishedAt) THEN Null
        ELSE [ t |-> "video",
               videoId |-> v.id,
               publishedAt |-> publishedAt.time,
               views |-> views,
               likes |-> likes,
               comments |-> comments,
               duration |-> duration.chars,
               durationSeconds |-> durationSeconds,
               isShort |-> IsShort(durationSeconds),
               engagement |-> IF views > 0 THEN Q((likes + comments) * 100, views)
                                           ELSE QInt(0),
               likesDisabled |-> Field(stats, "likeCount").t = "undefined",
               commentsDisabled |-> Field(stats, "commentCount").t = "undefined" ]

\* Mutant: oldest first.
ByPublishedAt_Ascending(a, b) == a.publishedAt - b.publishedAt

\* the comparator of the sort: (a, b) => b.publishedAt - a.publishedAt
ByPublishedAt(a, b) == b.publishedAt - a.publishedAt

\* Array.prototype.sort is stable: x goes behind every element that the
\* comparator does not put after it.
RECURSIVE SortInsert(_, _)
SortInsert(sorted, x) ==
    IF sorted = <<>> THEN <<x>>
    ELSE LET last == sorted[Len(sorted)]
         IN  IF ByPublishedAt(last, x) <= 0
             THEN Append(sorted, x)
             ELSE Append(SortInsert(SubSeq(sorted, 1, Len(sorted) - 1), x), last)

RECURSIVE SortVideos(_)
SortVideos(vs) ==
    IF vs = <<>> THEN <<>>
    ELSE SortInsert(SortVideos(SubSeq(vs, 1, Len(vs) - 1)), vs[Len(vs)])

\* .filter(Boolean)
RECURSIVE FilterNonNull(_)
FilterNonNull(xs) ==
    IF xs = <<>> THEN <<>>
    ELSE IF xs[1].t = "null" THEN FilterNonNull(Tail(xs))
    ELSE <<xs[1]>> \o FilterNonNull(Tail(xs))

parseVideos(videos) ==
    SortVideos(FilterNonNull([i \in 1..Len(videos) |-> parseVideo(videos[i])]))

-----------------------------------------------------------------------------
(* Calls of the normalizer                                                 *)

\* The largest day count of the durations tried, and the longest raw list.
MaxDays == 2
MaxRawVideos == 3

\* Number.prototype.toString of a non-negative integer
RECURSIVE ToDigits(_)
ToDigits(n) ==
    IF n < 10 THEN <<Digits[n + 1]>>
    ELSE Append(ToDigits(n \div 10), Digits[(n % 10) + 1])

Absent == [has |-> FALSE, n |-> 0]
Some(n) == [has |-> TRUE, n |-> n]
Part(c, unit) == IF c.has THEN ToDigits(c.n) \o <<unit>> ELSE <<>>

\* The ISO-8601 text of a duration given by its optional components:
\* P[nD][T[nH][nM][nS]]
FormatIso(c) ==
    <<"P">> \o Part(c.d, "D")
    \o (IF c.h.has \/ c.m.has \/ c.s.has
        THEN <<"T">> \o Part(c.h, "H") \o Part(c.m, "M") \o Part(c.s, "S")
        ELSE <<>>)

DurationParts ==
    {c \in [d : {Absent} \cup {Some(n) : n \in 0..MaxDays},
            h : {Absent, Some(0), Some(1), Some(12)},
            m : {Absent, Some(0), Some(1), Some(2), Some(30)},
            s : {Absent, Some(0), Some(4), Some(30), Some(45), Some(60), Some(61)}] :
        c.d.has \/ c.h.has \/ c.m.has \/ c.s.has}

\* what the claim says the text stands for
SecondsOf(c) == 86400 * c.d.n + 3600 * c.h.n + 60 * c.m.n + c.s.n

IsoText(c) == [t |-> "str", chars |-> FormatIso(c)]

T1 == DateStr("2025-01-01T00:00:00Z")
T2 == DateStr("2025-01-15T00:00:00Z")
T3 == DateStr("2025-01-15T12:00:00Z")
BadDate == DateStr("invalid-date")

FullStats ==
    [t |-> "obj", viewCount |-> StrNum(10000), likeCount |-> StrNum(500),
     commentCount |-> StrNum(50)]

\* where a raw record may carry its publish time
TimestampShapes ==
    {[snippet |-> [t |-> "obj", publishedAt |-> ts],
      contentDetails |-> [t |-> "obj", duration |-> IsoText([d |-> Absent, h |-> Absent, m |-> Some(10), s |-> Some(30)])]]
        : ts \in {T1, T2, T3, BadDate}}
    \cup
    {[snippet |-> [t |-> "obj"],
      contentDetails |-> [t |-> "obj", videoPublishedAt |-> ts]] : ts \in {T2, BadDate}}
    \cup
    {[snippet |-> Undefined, contentDetails |-> Undefined],
     [snippet |-> [t |-> "obj", publishedAt |-> BadDate],
      contentDetails |-> [t |-> "obj", videoPublishedAt |-> T1]]}

RawForOrdering(i, shape) ==
    [t |-> "obj", id |-> i, snippet |-> shape.snippet, statistics |-> FullStats,
     contentDetails |-> shape.contentDetails]

CountRaw == {Undefined, StrText, StrLead(12), StrNum(0), StrNum(1000)}

StatsShapes ==
    {Undefined, [t |-> "obj"]}
    \cup [t : {"obj"}, viewCount : CountRaw, likeCount : CountRaw, commentCount : CountRaw]

DurationShapes ==
    {Undefined, [t |-> "obj"]}
    \cup {[t |-> "obj", duration |-> IsoText(c)] : c \in DurationParts}

\* lists that vary where and whether the publish time is given, and single
\* records that vary every other field
RawVideoLists ==
    UNION {[1..n -> TimestampShapes] : n \in 0..MaxRawVideos}

SingleRawVideos ==
    [t : {"obj"}, id : {1}, snippet : {[t |-> "obj", publishedAt |-> ts] : ts \in {T2, BadDate}},
     statistics : StatsShapes, contentDetails : DurationShapes]

InitParse ==
    /\ StateIdle
    /\ done = FALSE
    /\ ret = NoResult
    /\ \/ /\ fn = "parseDuration"
          /\ \E c \in DurationParts : args = [parts |-> c, iso |-> FormatIso(c)]
       \/ /\ fn = "parseVideos"
          /\ \/ \E shapes \in RawVideoLists :
                  args = [videos |-> [i \in 1..Len(shapes) |-> RawForOrdering(i, shapes[i])]]
             \/ \E v \in SingleRawVideos : args = [videos |-> <<v>>]

ParseDuration ==
    /\ ~done
    /\ fn = "parseDuration"
    /\ ret' = parseDuration(args.iso)
    /\ done' = TRUE
    /\ UNCHANGED <<fn, args>>
    /\ UNCHANGED stateVars

ParseVideos ==
    /\ ~done
    /\ fn = "parseVideos"
    /\ ret' = parseVideos(args.videos)
    /\ done' = TRUE
    /\ UNCHANGED <<fn, args>>
    /\ UNCHANGED stateVars

NextParse == ParseDuration \/ ParseVideos

SpecParse == InitParse /\ [][NextParse]_vars

\* C4: the duration parser returns 86400*d + 3600*h + 60*m + s for every
\* duration text built from optional day, hour, minute and second parts,
\* including those that carry a day part (P1DT12H, P2D).
C4_DurationAllParts ==
    (done /\ fn = "parseDuration") => ret = SecondsOf(args.parts)

\* the texts without a day part are read as the claim says
C4_DurationWithoutDays ==
    (done /\ fn = "parseDuration" /\ ~args.parts.d.has) => ret = SecondsOf(args.parts)

\* C5: for every record parseVideos keeps, isShort holds exactly when
\* 0 < durationSeconds <= 60.
C5_ShortIffWithinSixty ==
    (done /\ fn = "parseVideos") =>
        \A j \in 1..Len(ret) :
            ret[j].isShort <=> (0 < ret[j].durationSeconds /\ ret[j].durationSeconds <= 60)

\* PT1M: exactly 60 seconds, short
C5_Witness ==
    /\ done /\ fn = "parseVideos" /\ Len(ret) = 1
    /\ ret[1].duration = <<"P", "T", "1", "M">>
    /\ ret[1].durationSeconds = 60 /\ ret[1].isShort

\* PT0S, and a record without duration data: zero seconds, not short
C5_WitnessZero ==
    /\ done /\ fn = "parseVideos" /\ Len(ret) = 1
    /\ Field(args.videos[1].contentDetails, "duration") = Undefined
    /\ ret[1].durationSeconds = 0 /\ ~ret[1].isShort

\* C6: the list parseVideos returns is ordered by publish time, latest
\* first, whatever the order of the raw input.
C6_SortedDescending ==
    (done /\ fn = "parseVideos") =>
        \A j \in 1..(Len(ret) - 1) : ret[j].publishedAt >= ret[j + 1].publishedAt

\* raw input oldest first, output latest first
C6_Witness ==
    /\ done /\ fn = "parseVideos" /\ Len(args.videos) = 3 /\ Len(ret) = 3
    /\ Field(args.videos[1].snippet, "publishedAt") = T1
    /\ Field(args.videos[2].snippet, "publishedAt") = T2
    /\ Field(args.videos[3].snippet, "publishedAt") = T3
    /\ ret[1].videoId = 3 /\ ret[2].videoId = 2 /\ ret[3].videoId = 1

\* the output records made from the raw record v
KeptOf(v) == {j \in 1..Len(ret) : ret[j].videoId = v.id}

\* undefined (also through a missing statistics object), or text that does
\* not start with a decimal integer
MissingOrNonNumeric(v, field) ==
    LET raw == Opt(Field(v, "statistics"), field)
    IN  raw.t = "undefined" \/ ~raw.digits

C7_WitnessCounts ==
    /\ done /\ fn = "parseVideos" /\ Len(ret) = 1
    /\ Field(args.videos[1].statistics, "viewCount") = StrText
    /\ Field(args.videos[1].statistics, "likeCount") = Undefined
    /\ ret[1].views = 0 /\ ret[1].likes = 0 /\ ret[1].likesDisabled

-----------------------------------------------------------------------------
(* Rate card generator (rate-card.js)                                      *)

\* USD per 1,000 views
BASE_CPM ==
    [n \in {"Nano", "Micro", "Mid-Tier", "Macro", "Mega"} |->
        CASE n = "Nano"     -> [low |-> 5,  mid |-> 10, high |-> 20]
          [] n = "Micro"    -> [low |-> 10, mid |-> 18, high |-> 30]
          [] n = "Mid-Tier" -> [low |-> 15, mid |-> 22, high |-> 35]
          [] n = "Macro"    -> [low |-> 20, mid |-> 28, high |-> 40]
          [] n = "Mega"     -> [low |-> 25, mid |-> 35, high |-> 50]]

TIER_FLOORS ==
    [n \in {"Nano", "Micro", "Mid-Tier", "Macro", "Mega"} |->
        CASE n = "Nano"     -> [integration |-> 100,   dedicated |-> 200,   shorts |-> 50]
          [] n = "Micro"    -> [integration |-> 500,   dedicated |-> 1000,  shorts |-> 150]
          [] n = "Mid-Tier" -> [integration |-> 2500,  dedicated |-> 5000,  shorts |-> 500]
          [] n = "Macro"    -> [integration |-> 10000, dedicated |-> 25000, shorts |-> 2000]
          [] n = "Mega"     -> [integration |-> 30000, dedicated |-> 75000, shorts |-> 5000]]

\* the entries of the table in insertion order, multipliers in hundredths
NICHE_MULTIPLIERS ==
    << [niche |-> "Technology", chars |-> <<"T", "e", "c", "h", "n", "o", "l", "o", "g", "y">>, mult |-> 130],
       [niche |-> "Finance", chars |-> <<"F", "i", "n", "a", "n", "c", "e">>, mult |-> 150],
       [niche |-> "Business", chars |-> <<"B", "u", "s", "i", "n", "e", "s", "s">>, mult |-> 140],
       [niche |-> "Science", chars |-> <<"S", "c", "i", "e", "n", "c", "e">>, mult |-> 120],
       [niche |-> "Education", chars |-> <<"E", "d", "u", "c", "a", "t", "i", "o", "n">>, mult |-> 110],
       [niche |-> "Health", chars |-> <<"H", "e", "a", "l", "t", "h">>, mult |-> 120],
       [niche |-> "Gaming", chars |-> <<"G", "a", "m", "i", "n", "g">>, mult |-> 90],
       [niche |-> "Music", chars |-> <<"M", "u", "s", "i", "c">>, mult |-> 80],
       [niche |-> "Entertainment", chars |-> <<"E", "n", "t", "e", "r", "t", "a", "i", "n", "m", "e", "n", "t">>, mult |-> 90],
       [niche |-> "Sports", chars |-> <<"S", "p", "o", "r", "t", "s">>, mult |-> 100],
       [niche |-> "Lifestyle", chars |-> <<"L", "i", "f", "e", "s", "t", "y", "l", "e">>, mult |-> 110],
       [niche |-> "Comedy", chars |-> <<"C", "o", "m", "e", "d", "y">>, mult |-> 85],
       [niche |-> "Film", chars |-> <<"F", "i", "l", "m">>, mult |-> 90],
       [niche |-> "Society", chars |-> <<"S", "o", "c", "i", "e", "t", "y">>, mult |-> 100] >>

\* String.prototype.toLowerCase, on the letters A..Z
ToLowerChar(c) ==
    CASE c = "A" -> "a" []
         c = "B" -> "b" []
         c = "C" -> "c" []
         c = "D" -> "d" []
         c = "E" -> "e" []
         c = "F" -> "f" []
         c = "G" -> "g" []
         c = "H" -> "h" []
         c = "I" -> "i" []
         c = "J" -> "j" []
         c = "K" -> "k" []
         c = "L" -> "l" []
         c = "M" -> "m" []
         c = "N" -> "n" []
         c = "O" -> "o" []
         c = "P" -> "p" []
         c = "Q" -> "q" []
         c = "R" -> "r" []
         c = "S" -> "s" []
         c = "T" -> "t" []
         c = "U" -> "u" []
         c = "V" -> "v" []
         c = "W" -> "w" []
         c = "X" -> "x" []
         c = "Y" -> "y" []
         c = "Z" -> "z" []
         OTHER -> c

toLowerCase(str) == [i \in 1..Len(str) |-> ToLowerChar(str[i])]

\* String.prototype.includes
includes(hay, needle) ==
    \E i \in 0..(Len(hay) - Len(needle)) : \A j \in 1..Len(needle) : hay[i + j] = needle[j]

\* cat.toLowerCase().includes(niche.toLowerCase())
NicheMatches(cat, entry) == includes(toLowerCase(cat), toLowerCase(entry.chars))

\* the body of the inner loop for one category and one table entry
NicheStep(acc, cat, entry) ==
    IF NicheMatches(cat, entry) /\ entry.mult > acc.nicheMultiplier
    THEN [nicheMultiplier |-> entry.mult, matchedNiche |-> entry.niche]
    ELSE acc

\* for (const [niche, mult] of Object.entries(NICHE_MULTIPLIERS)), entries 1..k
RECURSIVE NicheInner(_, _, _)
NicheInner(acc, cat, k) ==
    IF k = 0 THEN acc
    ELSE NicheStep(NicheInner(acc, cat, k - 1), cat, NICHE_MULTIPLIERS[k])

\* for (const cat of contentCategories), categories 1..k
RECURSIVE NicheOuter(_, _)
NicheOuter(cats, k) ==
    IF k = 0 THEN [nicheMultiplier |-> 100, matchedNiche |-> "General"]
    ELSE NicheInner(NicheOuter(cats, k - 1), cats[k], Len(NICHE_MULTIPLIERS))

\* in hundredths
EngagementMultiplier(creatorFusionScore) ==
    IF creatorFusionScore >= 80 THEN 125
    ELSE IF creatorFusionScore >= 65 THEN 110
    ELSE IF creatorFusionScore >= 50 THEN 100
    ELSE IF creatorFusionScore >= 35 THEN 85
    ELSE 70

RawRate(views, cpm, typeMultiplier, qualityMultiplier) ==
    MathRound(QMul(QMul(QMul(QMul(views, Q(1, 1000)), QInt(cpm)), typeMultiplier),
                   qualityMultiplier))

\* Mutant: the mid and high floors exchanged.
calcRate_FloorsSwapped(views, cpm, typeMultiplier, qualityMultiplier, floor) ==
    [ low  |-> Max(RawRate(views, cpm.low, typeMultiplier, qualityMultiplier), floor),
      mid  |-> Max(RawRate(views, cpm.mid, typeMultiplier, qualityMultiplier),
                   MathRound(QMul(QInt(floor), Q(25, 10)))),
      high |-> Max(RawRate(views, cpm.high, typeMultiplier, qualityMultiplier),
                   MathRound(QMul(QInt(floor), Q(15, 10)))) ]

calcRate(views, cpm, typeMultiplier, qualityMultiplier, floor) ==
    [ low  |-> Max(RawRate(views, cpm.low, typeMultiplier, qualityMultiplier), floor),
      mid  |-> Max(RawRate(views, cpm.mid, typeMultiplier, qualityMultiplier),
                   MathRound(QMul(QInt(floor), Q(15, 10)))),
      high |-> Max(RawRate(views, cpm.high, typeMultiplier, qualityMultiplier),
                   MathRound(QMul(QInt(floor), Q(25, 10)))) ]

\* Mutant: a report without detections is treated as no report.
BrandDealExperience_ZeroUnknown(sponsorship) ==
    IF sponsorship.t = "null" \/ sponsorship.totalDetected = 0 THEN "Unknown"
    ELSE IF sponsorship.totalDetected >= 10 THEN "Very experienced"
    ELSE IF sponsorship.totalDetected >= 5 THEN "Experienced"
    ELSE "Some experience"

\* if (sponsorship) { ... }: null is falsy, a report object is truthy
BrandDealExperience(sponsorship) ==
    IF sponsorship.t = "null" THEN "Unknown"
    ELSE IF sponsorship.totalDetected >= 10 THEN "Very experienced"
    ELSE IF sponsorship.totalDetected >= 5 THEN "Experienced"
    ELSE IF sponsorship.totalDetected >= 1 THEN "Some experience"
    ELSE "No sponsorship history detected"

\* a parameter default (sponsorship = null): taken when the property is undefined
DefaultTo(value, default) == IF value.t = "undefined" THEN default ELSE value

generateRateCard(p) ==
    LET tierKey == IF p.tier \in DOMAIN BASE_CPM THEN p.tier ELSE "Mid-Tier"
        baseCpm == BASE_CPM[tierKey]
        floors  == TIER_FLOORS[tierKey]
        niche   == NicheOuter(p.contentCategories, Len(p.contentCategories))
        engagementMultiplier == EngagementMultiplier(p.creatorFusionScore)
        combinedMultiplier   == Q(niche.nicheMultiplier * engagementMultiplier, 10000)
        integration == calcRate(QInt(p.avgViews), baseCpm, QInt(1), combinedMultiplier,
                                floors.integration)
        dedicated   == calcRate(QInt(p.avgViews), baseCpm, QInt(2), combinedMultiplier,
                                floors.dedicated)
        shorts      == calcRate(QMul(QInt(p.avgViews), Q(6, 10)), baseCpm, Q(3, 10),
                                combinedMultiplier, floors.shorts)
        usageRights == [ low  |-> MathRound(QMul(QInt(integration.mid), Q(30, 100))),
                         mid  |-> MathRound(QMul(QInt(integration.mid), Q(65, 100))),
                         high |-> MathRound(QMul(QInt(integration.mid), QInt(1))) ]
    IN  [ estimatedIntegrationRate |-> integration,
          estimatedDedicatedRate   |-> dedicated,
          estimatedShortsRate      |-> shorts,
          usageRightsAddon         |-> usageRights,
          adjustments |->
            [ niche      |-> [category |-> niche.matchedNiche,
                              multiplier |-> niche.nicheMultiplier],
              engagement |-> [creatorFusionScore |-> p.creatorFusionScore,
                              multiplier |-> engagementMultiplier],
              combined   |-> MathRound(QMul(combinedMultiplier, QInt(100))) ],
          brandDealExperience |-> BrandDealExperience(DefaultTo(p.sponsorship, Null)) ]

-----------------------------------------------------------------------------
(* Calls of the rate card generator                                        *)

\* The longest list of content categories.
MaxCategories == 2

CategorySamples ==
    {  <<"T", "e", "c", "h", "n", "o", "l", "o", "g", "y">>,
       <<"T", "E", "C", "H", "N", "O", "L", "O", "G", "Y">>,
       <<"M", "u", "s", "i", "c">>,
       <<"G", "a", "m", "i", "n", "g">>,
       <<"V", "i", "d", "e", "o", " ", "g", "a", "m", "e", " ", "c", "u", "l", "t", "u", "r", "e">>,
       <<"L", "i", "f", "e", "s", "t", "y", "l", "e", " ", "(", "s", "o", "c", "i", "o", "l", "o", "g", "y", ")">>,
       <<"F", "i", "l", "m">>,
       <<"F", "i", "n", "a", "n", "c", "e">>,
       <<"K", "n", "o", "w", "l", "e", "d", "g", "e">> }

ViewSamples == {0, 1, 499, 1000, 12345, 100000, 1500000}
TierSamples == {"Nano", "Micro", "Mid-Tier", "Macro", "Mega", "Unknown"}
RateScoreSamples == {0, 34, 35, 49, 50, 64, 65, 79, 80, 100}
SponsorshipSamples ==
    {Null, Undefined} \cup {[t |-> "obj", totalDetected |-> n] : n \in {0, 1, 4, 5, 9, 10, 12}}

CategoryLists == UNION {[1..n -> CategorySamples] : n \in 0..MaxCategories}

\* every price input with a few category lists, and every category list
\* with a few price inputs
InitRate ==
    /\ StateIdle
    /\ done = FALSE
    /\ ret = NoResult
    /\ fn = "generateRateCard"
    /\ \/ args \in [avgViews : ViewSamples, tier : TierSamples,
                     creatorFusionScore : RateScoreSamples,
                     contentCategories : {c \in CategoryLists :
                        Len(c) = 0 \/ (Len(c) = 1 /\ Len(c[1]) < 8)},
                     sponsorship : SponsorshipSamples]
       \/ args \in [avgViews : {12345}, tier : {"Micro"},
                     creatorFusionScore : {50, 80},
                     contentCategories : CategoryLists,
                     sponsorship : {Null}]

GenerateRateCard ==
    /\ ~done
    /\ fn = "generateRateCard"
    /\ ret' = generateRateCard(args)
    /\ done' = TRUE
    /\ UNCHANGED <<fn, args>>
    /\ UNCHANGED stateVars

NextRate == GenerateRateCard

SpecRate == InitRate /\ [][NextRate]_vars

NonDecreasing(range) == range.low <= range.mid /\ range.mid <= range.high

\* C3: in every rate card, each of the four priced ranges (integration,
\* dedicated, Shorts, usage-rights addon) has low <= mid <= high.
C3_RangesNonDecreasing ==
    (done /\ fn = "generateRateCard") =>
        /\ NonDecreasing(ret.estimatedIntegrationRate)
        /\ NonDecreasing(ret.estimatedDedicatedRate)
        /\ NonDecreasing(ret.estimatedShortsRate)
        /\ NonDecreasing(ret.usageRightsAddon)

\* a range whose low end is held up by the tier floor while its high end is
\* priced from the views
C3_Witness ==
    /\ done /\ fn = "generateRateCard" /\ args.tier = "Nano"
    /\ ret.estimatedIntegrationRate.low = TIER_FLOORS["Nano"].integration
    /\ 2 * ret.estimatedIntegrationRate.high > 5 * TIER_FLOORS["Nano"].integration
    /\ ret.estimatedIntegrationRate.low < ret.estimatedIntegrationRate.mid

-----------------------------------------------------------------------------
(* Authenticity detector (authenticity.js)                                 *)
(*                                                                         *)
(* A coefficient of variation is only ever compared with a positive        *)
(* threshold, so the model carries its square, an exact rational:          *)
(* cv < c  iff  cv^2 < c^2.                                                *)

\* The sum of xs[lo..hi], halving the range so that the evaluation nests only
\* as deep as the logarithm of its length.
RECURSIVE SumBetween(_, _, _)
SumBetween(xs, lo, hi) ==
    IF lo > hi THEN 0
    ELSE IF lo = hi THEN xs[lo]
    ELSE SumBetween(xs, lo, (lo + hi) \div 2) + SumBetween(xs, (lo + hi) \div 2 + 1, hi)

SumSeq(xs) == SumBetween(xs, 1, Len(xs))

SumSquares(xs) == SumSeq([i \in 1..Len(xs) |-> xs[i] * xs[i]])

\* The square of coefficientOfVariation(values) for integer values:
\* 0 for fewer than two values or a zero mean, else variance / mean^2
\* = (n * sum(v^2) - sum(v)^2) / sum(v)^2.
CoefficientOfVariationSq(values) ==
    LET n  == Len(values)
        sm == SumSeq(values)
    IN  IF n < 2 THEN QInt(0)
        ELSE IF sm = 0 THEN QInt(0)
        ELSE Q(n * SumSquares(values) - sm * sm, sm * sm)

\* the least common multiple of l and x
LcmOf(l, x) == (x \div Gcd(x, l)) * l

\* the least common multiple of xs[lo..hi], by halves as SumBetween
RECURSIVE LcmBetween(_, _, _)
LcmBetween(xs, lo, hi) ==
    IF lo > hi THEN 1
    ELSE IF lo = hi THEN xs[lo]
    ELSE LcmOf(LcmBetween(xs, lo, (lo + hi) \div 2), LcmBetween(xs, (lo + hi) \div 2 + 1, hi))

Lcm(xs) == LcmBetween(xs, 1, Len(xs))

\* The ratios likes / views of the videos, all multiplied by the least
\* common multiple of the view counts (scaling leaves the coefficient of
\* variation unchanged).
ScaledRatios(videos) ==
    LET l == Lcm([i \in 1..Len(videos) |-> videos[i].views])
    IN  [i \in 1..Len(videos) |-> videos[i].likes * (l \div videos[i].views)]

\* threshold squares: 0.15^2, 0.20^2 and 0.1^2
NATURAL_LVR_CV_MIN_SQ == Q(9, 400)
LvrMediumSq == Q(1, 25)
ViewCvMinSq == Q(1, 100)

Flag(severity, signal) == [severity |-> severity, signal |-> signal]
NoFinding == [flags |-> <<>>, deductions |-> 0]
Finding(severity, signal, points) ==
    [flags |-> <<Flag(severity, signal)>>, deductions |-> points]

IsEligible(v) == v.views >= 100
HasLikeRatio(v) == ~v.likesDisabled /\ v.views > 0

\* Mutant: the high-severity threshold compared the wrong way round.
Signal1_Inverted(eligible) ==
    LET withLikes == SelectSeq(eligible, HasLikeRatio)
        cvSq      == CoefficientOfVariationSq(ScaledRatios(withLikes))
    IN  IF Len(withLikes) >= 3
        THEN IF QLt(NATURAL_LVR_CV_MIN_SQ, cvSq)
                THEN Finding("high", "Suspiciously consistent like-to-view ratio", 30)
             ELSE IF QLt(cvSq, LvrMediumSq)
                THEN Finding("medium", "Unusually consistent like-to-view ratio", 10)
             ELSE NoFinding
        ELSE NoFinding

\* Signal 1: like-to-view ratio consistency
Signal1(eligible) ==
    LET withLikes == SelectSeq(eligible, HasLikeRatio)
        cvSq      == CoefficientOfVariationSq(ScaledRatios(withLikes))
    IN  IF Len(withLikes) >= 3
        THEN IF QLt(cvSq, NATURAL_LVR_CV_MIN_SQ)
                THEN Finding("high", "Suspiciously consistent like-to-view ratio", 30)
             ELSE IF QLt(cvSq, LvrMediumSq)
                THEN Finding("medium", "Unusually consistent like-to-view ratio", 10)
             ELSE NoFinding
        ELSE NoFinding

\* Signal 2: comments per 100 likes, against NORMAL_CTL_MIN = 0.5 and
\* NORMAL_CTL_MAX = 20
Signal2(eligible) ==
    LET totalLikes    == SumSeq([i \in 1..Len(eligible) |-> eligible[i].likes])
        totalComments == SumSeq([i \in 1..Len(eligible) |-> eligible[i].comments])
        ctl           == Q(totalComments * 100, totalLikes)
    IN  IF totalLikes > 0
        THEN IF QLt(ctl, Q(5, 10))
                THEN Finding("high", "Abnormally low comment-to-like ratio", 25)
             ELSE IF QLt(QInt(20), ctl)
                THEN Finding("medium", "Unusually high comment-to-like ratio", 15)
             ELSE NoFinding
        ELSE NoFinding

MIN_VIEWS_PER_SUB == 5

\* Signal 3: lifetime views per subscriber
Signal3(subscribers, totalViews) ==
    IF subscribers > 1000 /\ totalViews > 0
    THEN IF QLt(Q(totalViews, subscribers), QInt(MIN_VIEWS_PER_SUB))
            THEN Finding("high", "Very low lifetime views per subscriber", 25)
         ELSE NoFinding
    ELSE NoFinding

IsZeroCommentHighLikes(v) == v.comments = 0 /\ ~v.commentsDisabled /\ v.likes > 50

\* Signal 4: videos with likes but no comments
Signal4(eligible) ==
    LET zeroCommentHighLikes == SelectSeq(eligible, IsZeroCommentHighLikes)
        pct == MathRound(Q(Len(zeroCommentHighLikes) * 100, Len(eligible)))
    IN  IF Len(zeroCommentHighLikes) > 0
        THEN IF pct >= 30
                THEN Finding("medium", "Many videos have likes but zero comments", 15)
             ELSE NoFinding
        ELSE NoFinding

\* Signal 5: flat view counts
Signal5(eligible) ==
    LET viewCvSq == CoefficientOfVariationSq([i \in 1..Len(eligible) |-> eligible[i].views])
    IN  IF QLt(viewCvSq, ViewCvMinSq) /\ Len(eligible) >= 5
        THEN Finding("medium", "Unnaturally consistent view counts", 15)
        ELSE NoFinding

\* The labels are cut before their dash.
\* Mutant: every boundary taken as exclusive.
labelScore_Exclusive(score) ==
    IF score > 85 THEN "High authenticity"
    ELSE IF score > 65 THEN "Moderate authenticity"
    ELSE IF score > 40 THEN "Low authenticity"
    ELSE "Very low authenticity"

labelScore(score) ==
    IF score >= 85 THEN "High authenticity"
    ELSE IF score >= 65 THEN "Moderate authenticity"
    ELSE IF score >= 40 THEN "Low authenticity"
    ELSE "Very low authenticity"

InsufficientData ==
    [score |-> Null, status |-> "insufficient_data", label |-> "Insufficient data",
     flags |-> <<>>]

Num(n) == [t |-> "num", v |-> n]

\* Mutant: the eligibility filter counts every video.
EligibleVideos_All(videos) == videos

\* videos.filter((v) => v.views >= 100)
EligibleVideos(videos) == SelectSeq(videos, IsEligible)

analyzeAuthenticity(videos, channelStats) ==
    IF Len(videos) < 3 THEN InsufficientData
    ELSE
    LET subscribers == safeInt(channelStats.subscriberCount)
        totalViews  == safeInt(channelStats.viewCount)
        eligible    == EligibleVideos(videos)
    IN  IF Len(eligible) < 3 THEN InsufficientData
        ELSE
        LET s1 == Signal1(eligible)
            s2 == Signal2(eligible)
            s3 == Signal3(subscribers, totalViews)
            s4 == Signal4(eligible)
            s5 == Signal5(eligible)
            deductions == s1.deductions + s2.deductions + s3.deductions
                          + s4.deductions + s5.deductions
            score == Max(0, 100 - deductions)
        IN  [ score |-> Num(score),
              label |-> labelScore(score),
              flags |-> s1.flags \o s2.flags \o s3.flags \o s4.flags \o s5.flags,
              videosAnalyzed |-> Len(eligible) ]

-----------------------------------------------------------------------------
(* Calls of the authenticity detector                                      *)

\* The longest video list, and the most distinct kinds of video in a list.
MaxAuthVideos == 5
MaxAuthKinds == 3

ParsedVideo(views, likes, comments, likesDisabled, commentsDisabled) ==
    [views |-> views, likes |-> likes, comments |-> comments,
     likesDisabled |-> likesDisabled, commentsDisabled |-> commentsDisabled]

\* The kinds of parsed video tried.  Likes are a percentage of the views; a
\* disabled count is a missing count, which parseVideos reads as 0.  With
\* these percentages no coefficient of variation falls exactly on one of its
\* thresholds, where the rounding of the floating-point square root decides.
ViewChoices == <<100, 200>>
LikeChoices ==
    << [disabled |-> TRUE, pct |-> 0], [disabled |-> FALSE, pct |-> 0],
       [disabled |-> FALSE, pct |-> 40], [disabled |-> FALSE, pct |-> 55] >>
CommentChoices == <<0, 30>>

\* a video under the 100-view threshold, and two with comments disabled
OtherKinds ==
    << ParsedVideo(99, 70, 0, FALSE, FALSE),
       ParsedVideo(100, 55, 0, FALSE, TRUE),
       ParsedVideo(200, 110, 0, FALSE, TRUE) >>

NumProductKinds == Len(ViewChoices) * Len(LikeChoices) * Len(CommentChoices)
NumKinds == NumProductKinds + Len(OtherKinds)

KindOf(k) ==
    IF k >= NumProductKinds THEN OtherKinds[k - NumProductKinds + 1]
    ELSE LET views == ViewChoices[(k % Len(ViewChoices)) + 1]
             like  == LikeChoices[((k \div Len(ViewChoices)) % Len(LikeChoices)) + 1]
             cmts  == CommentChoices[(k \div (Len(ViewChoices) * Len(LikeChoices))) + 1]
         IN  ParsedVideo(views, (views * like.pct) \div 100, cmts,
                         like.disabled, FALSE)

Repeat(x, n) == [i \in 1..n |-> x]

\* the lists of at most len kinds, as runs of at most kinds distinct kinds in
\* increasing order (the detector only sums and filters)
RECURSIVE RunLists(_, _, _)
RunLists(kinds, len, from) ==
    {<<>>} \cup
    (IF kinds = 0 \/ len = 0 THEN {}
     ELSE UNION { {Repeat(c[1], c[2]) \o rest : rest \in RunLists(kinds - 1, len - c[2], c[1] + 1)}
                  : c \in (from..(NumKinds - 1)) \X (1..len) })

AuthVideoLists ==
    {[i \in 1..Len(ks) |-> KindOf(ks[i])] : ks \in RunLists(MaxAuthKinds, MaxAuthVideos, 0)}

AuthStatsSamples ==
    { [subscriberCount |-> StrNum(2000), viewCount |-> StrNum(5000)],
      [subscriberCount |-> StrNum(2000), viewCount |-> StrNum(20000)],
      [subscriberCount |-> StrNum(1001), viewCount |-> StrNum(5005)],
      [subscriberCount |-> StrNum(1000), viewCount |-> StrNum(100)],
      [subscriberCount |-> Undefined, viewCount |-> Undefined] }

InitAuth ==
    /\ StateIdle
    /\ done = FALSE
    /\ ret = NoResult
    /\ fn = "analyzeAuthenticity"
    /\ args \in [videos : AuthVideoLists, channelStats : AuthStatsSamples]

AnalyzeAuthenticity ==
    /\ ~done
    /\ fn = "analyzeAuthenticity"
    /\ ret' = analyzeAuthenticity(args.videos, args.channelStats)
    /\ done' = TRUE
    /\ UNCHANGED <<fn, args>>
    /\ UNCHANGED stateVars

NextAuth == AnalyzeAuthenticity

SpecAuth == InitAuth /\ [][NextAuth]_vars

-----------------------------------------------------------------------------
(* Claims about the authenticity detector                                  *)

IsComputed(r) == r.score # Null

EligibleCount(videos) ==
    Cardinality({i \in 1..Len(videos) : videos[i].views >= 100})

C8_WitnessComputed ==
    /\ done /\ fn = "analyzeAuthenticity"
    /\ EligibleCount(args.videos) = 3
    /\ Len(args.videos) > 3
    /\ ret.score.t = "num"

\* the fixed deduction of each flag, by its signal text
DeductionOf(flag) ==
    CASE flag.signal = "Suspiciously consistent like-to-view ratio" -> 30
      [] flag.signal = "Unusually consistent like-to-view ratio" -> 10
      [] flag.signal = "Abnormally low comment-to-like ratio" -> 25
      [] flag.signal = "Unusually high comment-to-like ratio" -> 15
      [] flag.signal = "Very low lifetime views per subscriber" -> 25
      [] flag.signal = "Many videos have likes but zero comments" -> 15
      [] flag.signal = "Unnaturally consistent view counts" -> 15

TotalDeductions(flags) == SumSeq([i \in 1..Len(flags) |-> DeductionOf(flags[i])])

\* C9: a computed score is max(0, 100 - D), D being the sum of the fixed
\* deductions of the flags raised, so it lies in 0..100, and the label is
\* the one of that score: >= 85 high, >= 65 moderate, >= 40 low, else very
\* low.
C9_ScoreFromDeductions ==
    (done /\ fn = "analyzeAuthenticity" /\ IsComputed(ret)) =>
        LET D     == TotalDeductions(ret.flags)
            score == ret.score.v
        IN  /\ score = (IF D >= 100 THEN 0 ELSE 100 - D)
            /\ score >= 0 /\ score <= 100
            /\ (score >= 85) <=> (ret.label = "High authenticity")
            /\ (score >= 65 /\ score < 85) <=> (ret.label = "Moderate authenticity")
            /\ (score >= 40 /\ score < 65) <=> (ret.label = "Low authenticity")
            /\ (score < 40) <=> (ret.label = "Very low authenticity")

\* all five checks fire: D = 110 and the score is 0
C9_Witness ==
    /\ done /\ fn = "analyzeAuthenticity" /\ IsComputed(ret)
    /\ Len(ret.flags) = 5
    /\ TotalDeductions(ret.flags) = 110
    /\ ret.score.v = 0
    /\ ret.label = "Very low authenticity"

\* a score on a label boundary
C9_WitnessBoundary ==
    /\ done /\ fn = "analyzeAuthenticity" /\ IsComputed(ret)
    /\ ret.score.v = 85
    /\ ret.label = "High authenticity"

\* the signal texts that contain 'like-to-view ratio'
MentionsLikeToViewRatio ==
    { "Suspiciously consistent like-to-view ratio",
      "Unusually consistent like-to-view ratio" }

LikesEnabledEligible(videos) ==
    {i \in 1..Len(videos) : videos[i].views >= 100 /\ ~videos[i].likesDisabled}

SameLikeToViewRatio(videos) ==
    \A i, j \in LikesEnabledEligible(videos) :
        videos[i].likes * videos[j].views = videos[j].likes * videos[i].views

\* C10: when the eligible (views >= 100) likes-enabled videos number at
\* least 3 and all have the same like-to-view ratio, the report is computed,
\* holds a high-severity flag whose signal contains 'like-to-view ratio', and
\* its score is at most 70.
C10_UniformLikeRatioFlagged ==
    (/\ done /\ fn = "analyzeAuthenticity"
     /\ Cardinality(LikesEnabledEligible(args.videos)) >= 3
     /\ SameLikeToViewRatio(args.videos)) =>
        /\ IsComputed(ret)
        /\ \E i \in 1..Len(ret.flags) :
              /\ ret.flags[i].severity = "high"
              /\ ret.flags[i].signal \in MentionsLikeToViewRatio
        /\ ret.score.v <= 70

\* equal ratios from different counts, next to a likes-disabled video
C10_Witness ==
    /\ done /\ fn = "analyzeAuthenticity"
    /\ Cardinality(LikesEnabledEligible(args.videos)) >= 3
    /\ SameLikeToViewRatio(args.videos)
    /\ \E i, j \in LikesEnabledEligible(args.videos) :
          /\ args.videos[i].views # args.videos[j].views
          /\ args.videos[i].likes > 0
    /\ \E i \in 1..Len(args.videos) : args.videos[i].likesDisabled
    /\ ret.score.v = 70

-----------------------------------------------------------------------------
(* Regular expressions of sponsorship.js.  A text is a sequence of        *)
(* characters; a position p in 0..Len(s) stands between s[p] and s[p+1].   *)
(* Every pattern has the i flag, so patterns are written in lower case and *)
(* matched against the lower-cased text.                                   *)

LowerLetters ==
    {"a", "b", "c", "d", "e", "f", "g", "h", "i", "j", "k", "l", "m",
     "n", "o", "p", "q", "r", "s", "t", "u", "v", "w", "x", "y", "z"}
DigitChars == {"0", "1", "2", "3", "4", "5", "6", "7", "8", "9"}
\* \w, \s and a line terminator, on lower-cased text
WordChars == LowerLetters \cup DigitChars \cup {"_"}
SpaceChars == {" ", "\n", "\t"}
LineTerminators == {"\n"}

Lit(cs) == [k |-> "lit", cs |-> cs]
Cls(set) == [k |-> "cls", set |-> set]
AnyChar == [k |-> "any"]
WordB == [k |-> "wb"]
EndOfInput == [k |-> "end"]
Cat(rs) == [k |-> "cat", rs |-> rs]
Alt(rs) == [k |-> "alt", rs |-> rs]
Optional(r) == [k |-> "opt", r |-> r]
Plus(r) == [k |-> "plus", r |-> r]
Star(r) == [k |-> "star", r |-> r]
Rep(r, lo, hi) == [k |-> "rep", r |-> r, lo |-> lo, hi |-> hi]

LitAt(s, p, cs) ==
    /\ p + Len(cs) <= Len(s)
    /\ \A j \in 1..Len(cs) : s[p + j] = cs[j]

IsWordAt(s, p) == p >= 1 /\ p <= Len(s) /\ s[p] \in WordChars

\* \b: exactly one side of the position is a word character
IsWordBoundary(s, p) == IsWordAt(s, p) # IsWordAt(s, p + 1)

RECURSIVE Ends(_, _, _)
RECURSIVE EndsCat(_, _, _)
RECURSIVE Repeated(_, _, _, _)
RECURSIVE Counted(_, _, _, _, _)

\* The positions where a match of r that starts at a position of P can end.
Ends(r, s, P) ==
    CASE r.k = "lit"  -> {p + Len(r.cs) : p \in {q \in P : LitAt(s, q, r.cs)}}
      [] r.k = "cls"  -> {p + 1 : p \in {q \in P : q < Len(s) /\ s[q + 1] \in r.set}}
      [] r.k = "any"  -> {p + 1 : p \in {q \in P : q < Len(s) /\ s[q + 1] \notin LineTerminators}}
      [] r.k = "wb"   -> {p \in P : IsWordBoundary(s, p)}
      [] r.k = "end"  -> {p \in P : p = Len(s)}
      [] r.k = "cat"  -> EndsCat(r.rs, s, P)
      [] r.k = "alt"  -> UNION {Ends(r.rs[i], s, P) : i \in 1..Len(r.rs)}
      [] r.k = "opt"  -> P \cup Ends(r.r, s, P)
      [] r.k = "plus" -> Repeated(r.r, s, {}, Ends(r.r, s, P))
      [] r.k = "star" -> Repeated(r.r, s, {}, P)
      [] r.k = "rep"  -> Counted(r.r, s, P, r.lo, r.hi)

EndsCat(rs, s, P) ==
    IF rs = <<>> \/ P = {} THEN P ELSE EndsCat(Tail(rs), s, Ends(Head(rs), s, P))

\* zero or more further matches of r from the positions of new
Repeated(r, s, reached, new) ==
    IF new = {} THEN reached
    ELSE Repeated(r, s, reached \cup new, Ends(r, s, new) \ (reached \cup new))

\* between lo and hi matches of r from the positions of P
Counted(r, s, P, lo, hi) ==
    (IF lo <= 0 THEN P ELSE {})
    \cup (IF hi = 0 \/ P = {} THEN {} ELSE Counted(r, s, Ends(r, s, P), lo - 1, hi - 1))

AllPositions(s) == 0..Len(s)

\* rx.test(s), and whether s.match(rx) is not null, for a pattern without
\* the g flag
Matches(rx, s) == Ends(rx, s, AllPositions(s)) # {}

-----------------------------------------------------------------------------
(* Sponsorship detection (sponsorship.js): the pattern tables              *)

\* lines 19-22
DISCLOSURE_HASHTAGS ==
    << <<"#", "a", "d">>,
       <<"#", "s", "p", "o", "n", "s", "o", "r", "e", "d">>,
       <<"#", "p", "a", "r", "t", "n", "e", "r">>,
       <<"#", "p", "a", "i", "d", "p", "a", "r", "t", "n", "e", "r", "s", "h", "i", "p">>,
       <<"#", "c", "o", "l", "l", "a", "b">>,
       <<"#", "g", "i", "f", "t", "e", "d">>,
       <<"#", "b", "r", "a", "n", "d", "a", "m", "b", "a", "s", "s", "a", "d", "o", "r">>,
       <<"#", "a", "f", "f", "i", "l", "i", "a", "t", "e">> >>

\* lines 25-41, in the order of the source
SPONSORSHIP_PHRASES ==
    << Cat(<<WordB, Lit(<<"s", "p", "o", "n", "s", "o", "r", "e", "d">>), Plus(Cls(SpaceChars)),
         Lit(<<"b", "y">>), WordB>>),
       Cat(<<WordB, Lit(<<"b", "r", "o", "u", "g", "h", "t">>), Plus(Cls(SpaceChars)), Lit(<<"t",
         "o">>), Plus(Cls(SpaceChars)), Lit(<<"y", "o", "u">>), Plus(Cls(SpaceChars)),
         Lit(<<"b", "y">>), WordB>>),
       Cat(<<WordB, Lit(<<"t", "h", "a", "n", "k">>), Optional(Lit(<<"s">>)), Plus(Cls(SpaceChars)),
         Lit(<<"t", "o">>), Plus(Cls(SpaceChars)), Plus(Cls(WordChars)), Plus(Cls(SpaceChars)),
         Lit(<<"f", "o", "r">>), Plus(Cls(SpaceChars)), Lit(<<"s", "p", "o", "n", "s", "o",
         "r">>)>>),
       Cat(<<WordB, Lit(<<"t", "h", "i", "s">>), Plus(Cls(SpaceChars)), Lit(<<"v", "i", "d", "e",
         "o">>), Plus(Cls(SpaceChars)), Lit(<<"i", "s">>), Plus(Cls(SpaceChars)), Lit(<<"s",
         "p", "o", "n", "s", "o", "r", "e", "d">>), WordB>>),
       Cat(<<WordB, Lit(<<"p", "a", "r", "t", "n", "e", "r", "s", "h", "i", "p">>),
         Plus(Cls(SpaceChars)), Lit(<<"w", "i", "t", "h">>), WordB>>),
       Cat(<<WordB, Lit(<<"p", "a", "i", "d">>), Plus(Cls(SpaceChars)), Lit(<<"p", "r", "o", "m", "o",
         "t", "i", "o", "n">>), WordB>>),
       Cat(<<WordB, Lit(<<"p", "a", "i", "d">>), Plus(Cls(SpaceChars)), Lit(<<"p", "a", "r", "t", "n",
         "e", "r", "s", "h", "i", "p">>), WordB>>),
       Cat(<<WordB, Lit(<<"i", "n", "c", "l", "u", "d", "e", "s">>), Plus(Cls(SpaceChars)), Lit(<<"p",
         "a", "i", "d">>), Plus(Cls(SpaceChars)), Lit(<<"p", "r", "o", "m", "o", "t", "i", "o",
         "n">>), WordB>>),
       Cat(<<WordB, Lit(<<"u", "s", "e">>), Plus(Cls(SpaceChars)), Optional(Cat(<<Lit(<<"m", "y">>),
         Plus(Cls(SpaceChars))>>)), Alt(<<Lit(<<"c", "o", "d", "e">>), Lit(<<"l", "i", "n",
         "k">>)>>), WordB>>),
       Cat(<<WordB, Lit(<<"d", "i", "s", "c", "o", "u", "n", "t">>), Plus(Cls(SpaceChars)), Lit(<<"c",
         "o", "d", "e">>), WordB>>),
       Cat(<<WordB, Lit(<<"p", "r", "o", "m", "o">>), Plus(Cls(SpaceChars)), Lit(<<"c", "o", "d",
         "e">>), WordB>>),
       Cat(<<WordB, Lit(<<"c", "o", "u", "p", "o", "n">>), Plus(Cls(SpaceChars)), Lit(<<"c", "o", "d",
         "e">>), WordB>>),
       Cat(<<WordB, Lit(<<"s", "p", "e", "c", "i", "a", "l">>), Plus(Cls(SpaceChars)), Lit(<<"o", "f",
         "f", "e", "r">>), WordB>>),
       Cat(<<WordB, Lit(<<"c", "h", "e", "c", "k">>), Plus(Cls(SpaceChars)), Optional(Cat(<<Lit(<<"t",
         "h", "e", "m">>), Plus(Cls(SpaceChars))>>)), Lit(<<"o", "u", "t">>),
         Plus(Cls(SpaceChars)), Lit(<<"a", "t">>), WordB>>),
       Cat(<<WordB, Lit(<<"s", "i", "g", "n">>), Plus(Cls(SpaceChars)), Lit(<<"u", "p">>),
         Plus(Cls(SpaceChars)), Alt(<<Lit(<<"w", "i", "t", "h">>), Lit(<<"u", "s", "i", "n",
         "g">>)>>), Plus(Cls(SpaceChars)), Alt(<<Lit(<<"m", "y">>), Lit(<<"t", "h", "e">>)>>),
         Plus(Cls(SpaceChars)), Lit(<<"l", "i", "n", "k">>), WordB>>) >>

\* lines 44-76, in the order of the source
AFFILIATE_PATTERNS ==
    << [name |-> <<"A", "m", "a", "z", "o", "n", " ", "A", "s", "s", "o", "c", "i", "a", "t", "e",
         "s">>, pattern |-> Alt(<<Lit(<<"a", "m", "z", "n", ".", "t", "o">>), Cat(<<Lit(<<"a",
         "m", "a", "z", "o", "n", ".">>), Plus(Cls(WordChars)), Lit(<<"/">>), Star(AnyChar),
         Cls({"?", "&"}), Lit(<<"t", "a", "g", "=">>)>>)>>)],
       [name |-> <<"S", "h", "a", "r", "e", "A", "S", "a", "l", "e">>, pattern |-> Lit(<<"s", "h", "a",
         "r", "e", "a", "s", "a", "l", "e", ".", "c", "o", "m">>)],
       [name |-> <<"I", "m", "p", "a", "c", "t", " ", "R", "a", "d", "i", "u", "s">>,
         pattern |-> Alt(<<Lit(<<"i", "m", "p", "a", "c", "t", ".", "c", "o", "m">>), Lit(<<"g",
         "o", "t", "o", ".", "t", "a", "r", "g", "e", "t", ".", "c", "o", "m">>), Lit(<<"p",
         "n", "t", "r", "s", ".", "c", "o", "m">>), Lit(<<"p", "n", "t", "r", "a", ".", "c",
         "o", "m">>), Lit(<<"p", "n", "t", "r", "a", "c", ".", "c", "o", "m">>)>>)],
       [name |-> <<"C", "J", " ", "A", "f", "f", "i", "l", "i", "a", "t", "e">>,
         pattern |-> Alt(<<Lit(<<"c", "j", ".", "c", "o", "m">>), Lit(<<"c", "o", "m", "m", "i",
         "s", "s", "i", "o", "n", "-", "j", "u", "n", "c", "t", "i", "o", "n">>), Lit(<<"a",
         "n", "r", "d", "o", "e", "z", "r", "s", ".", "n", "e", "t">>), Lit(<<"j", "d", "o",
         "q", "o", "c", "y", ".", "c", "o", "m">>), Lit(<<"d", "p", "b", "o", "l", "v", "w",
         ".", "n", "e", "t">>), Lit(<<"k", "q", "z", "y", "f", "j", ".", "c", "o", "m">>)>>)],
       [name |-> <<"R", "a", "k", "u", "t", "e", "n">>, pattern |-> Alt(<<Lit(<<"r", "a", "k", "u",
         "t", "e", "n", ".", "c", "o", "m">>), Lit(<<"l", "i", "n", "k", "s", "y", "n", "e",
         "r", "g", "y", ".", "c", "o", "m">>)>>)],
       [name |-> <<"P", "a", "r", "t", "n", "e", "r", "S", "t", "a", "c", "k">>, pattern |-> Lit(<<"p",
         "a", "r", "t", "n", "e", "r", "s", "t", "a", "c", "k", ".", "c", "o", "m">>)],
       [name |-> <<"A", "w", "i", "n">>, pattern |-> Alt(<<Lit(<<"a", "w", "i", "n", ".", "c", "o",
         "m">>), Lit(<<"a", "w", "i", "n", "1", ".", "c", "o", "m">>)>>)],
       [name |-> <<"B", "i", "t", "l", "y", " ", "(", "t", "r", "a", "c", "k", "i", "n", "g", ")">>,
         pattern |-> Lit(<<"b", "i", "t", ".", "l", "y", "/">>)],
       [name |-> <<"L", "i", "n", "k", "t", "r", "e", "e">>, pattern |-> Lit(<<"l", "i", "n", "k", "t",
         "r", ".", "e", "e", "/">>)],
       [name |-> <<"U", "T", "M", " ", "t", "r", "a", "c", "k", "i", "n", "g">>,
         pattern |-> Cat(<<Cls({"?", "&"}), Lit(<<"u", "t", "m", "_">>), Alt(<<Lit(<<"s", "o",
         "u", "r", "c", "e">>), Lit(<<"m", "e", "d", "i", "u", "m">>), Lit(<<"c", "a", "m", "p",
         "a", "i", "g", "n">>)>>), Lit(<<"=">>)>>)],
       [name |-> <<"G", "e", "n", "i", ".", "u", "s">>, pattern |-> Lit(<<"g", "e", "n", "i", ".", "u",
         "s", "/">>)],
       [name |-> <<"L", "T", "K", "/", "R", "e", "w", "a", "r", "d", "S", "t", "y", "l", "e">>,
         pattern |-> Alt(<<Lit(<<"l", "i", "k", "e", "t", "o", "k", "n", "o", "w", ".", "i",
         "t">>), Lit(<<"r", "s", "t", "y", "l", "e", ".", "m", "e">>), Lit(<<"l", "t", "k", ".",
         "a", "p", "p">>)>>)],
       [name |-> <<"S", "k", "i", "l", "l", "s", "h", "a", "r", "e">>, pattern |-> Cat(<<Lit(<<"s",
         "k", "i", "l", "l", "s", "h", "a", "r", "e", ".", "c", "o", "m", "/">>), Star(AnyChar),
         Lit(<<"?">>)>>)],
       [name |-> <<"S", "q", "u", "a", "r", "e", "s", "p", "a", "c", "e">>,
         pattern |-> Cat(<<Lit(<<"s", "q", "u", "a", "r", "e", "s", "p", "a", "c", "e", ".",
         "c", "o", "m", "/">>), Plus(Cls(WordChars))>>)],
       [name |-> <<"N", "o", "r", "d", "V", "P", "N">>, pattern |-> Cat(<<Lit(<<"n", "o", "r", "d",
         "v", "p", "n", ".", "c", "o", "m", "/">>), Plus(Cls(WordChars))>>)],
       [name |-> <<"E", "x", "p", "r", "e", "s", "s", "V", "P", "N">>, pattern |-> Cat(<<Lit(<<"e",
         "x", "p", "r", "e", "s", "s", "v", "p", "n", ".", "c", "o", "m", "/">>),
         Plus(Cls(WordChars))>>)],
       [name |-> <<"S", "u", "r", "f", "s", "h", "a", "r", "k">>, pattern |-> Cat(<<Lit(<<"s", "u",
         "r", "f", "s", "h", "a", "r", "k", ".">>), Alt(<<Lit(<<"c", "o", "m">>), Lit(<<"d",
         "e", "a", "l", "s">>)>>), Lit(<<"/">>), Plus(Cls(WordChars))>>)],
       [name |-> <<"A", "u", "d", "i", "b", "l", "e">>, pattern |-> Cat(<<Lit(<<"a", "u", "d", "i",
         "b", "l", "e", ".", "c", "o", "m", "/">>), Plus(Cls(WordChars))>>)],
       [name |-> <<"H", "o", "n", "e", "y", "/", "P", "a", "y", "P", "a", "l">>, pattern |-> Lit(<<"j",
         "o", "i", "n", "h", "o", "n", "e", "y", ".", "c", "o", "m">>)],
       [name |-> <<"R", "a", "i", "d", " ", "S", "h", "a", "d", "o", "w", " ", "L", "e", "g", "e", "n",
         "d", "s">>, pattern |-> Lit(<<"r", "a", "i", "d", ".", "p", "l", "a", "r", "i", "u",
         "m">>)],
       [name |-> <<"H", "e", "l", "l", "o", "F", "r", "e", "s", "h">>, pattern |-> Cat(<<Lit(<<"h",
         "e", "l", "l", "o", "f", "r", "e", "s", "h", ".", "c", "o", "m", "/">>),
         Plus(Cls(WordChars))>>)],
       [name |-> <<"R", "i", "d", "g", "e", " ", "W", "a", "l", "l", "e", "t">>,
         pattern |-> Cat(<<Lit(<<"r", "i", "d", "g", "e", ".", "c", "o", "m", "/">>),
         Plus(Cls(WordChars))>>)],
       [name |-> <<"M", "a", "n", "s", "c", "a", "p", "e", "d">>, pattern |-> Cat(<<Lit(<<"m", "a",
         "n", "s", "c", "a", "p", "e", "d", ".", "c", "o", "m", "/">>), Plus(Cls(WordChars))>>)],
       [name |-> <<"B", "e", "t", "t", "e", "r", "H", "e", "l", "p">>, pattern |-> Cat(<<Lit(<<"b",
         "e", "t", "t", "e", "r", "h", "e", "l", "p", ".", "c", "o", "m", "/">>),
         Plus(Cls(WordChars))>>)],
       [name |-> <<"E", "s", "t", "a", "b", "l", "i", "s", "h", "e", "d", " ", "T", "i", "t", "l", "e",
         "s">>, pattern |-> Lit(<<"e", "s", "t", "a", "b", "l", "i", "s", "h", "e", "d", "t",
         "i", "t", "l", "e", "s", ".", "c", "o", "m">>)],
       [name |-> <<"A", "t", "h", "l", "e", "t", "i", "c", " ", "G", "r", "e", "e", "n", "s", "/", "A",
         "G", "1">>, pattern |-> Cat(<<Alt(<<Lit(<<"a", "t", "h", "l", "e", "t", "i", "c", "g",
         "r", "e", "e", "n", "s">>), Lit(<<"d", "r", "i", "n", "k", "a", "g", "1">>)>>),
         Lit(<<".", "c", "o", "m">>)>>)],
       [name |-> <<"C", "a", "s", "e", "t", "i", "f", "y">>, pattern |-> Cat(<<Lit(<<"c", "a", "s",
         "e", "t", "i", "f", "y", ".", "c", "o", "m", "/">>), Plus(Cls(WordChars))>>)],
       [name |-> <<"F", "i", "v", "e", "r", "r">>, pattern |-> Cat(<<Lit(<<"f", "i", "v", "e", "r",
         "r", ".", "c", "o", "m", "/">>), Plus(Cls(WordChars))>>)],
       [name |-> <<"C", "a", "n", "v", "a">>, pattern |-> Cat(<<Lit(<<"c", "a", "n", "v", "a", ".",
         "c", "o", "m", "/">>), Plus(Cls(WordChars))>>)],
       [name |-> <<"M", "o", "n", "d", "a", "y", ".", "c", "o", "m">>, pattern |-> Cat(<<Lit(<<"m",
         "o", "n", "d", "a", "y", ".", "c", "o", "m", "/">>), Plus(Cls(WordChars))>>)],
       [name |-> <<"N", "o", "t", "i", "o", "n">>, pattern |-> Cat(<<Lit(<<"n", "o", "t", "i", "o",
         "n", ".", "s", "o", "/">>), Plus(Cls(WordChars))>>)] >>

\* lines 193-197
GENERIC_WORDS ==
    { <<"T", "H", "E">>, <<"A", "N", "D">>, <<"F", "O", "R">>,
      <<"U", "S", "E">>, <<"G", "E", "T">>, <<"O", "F", "F">>,
      <<"O", "U", "T">>, <<"N", "E", "W">>, <<"N", "O", "W">>,
      <<"F", "R", "E", "E">>, <<"L", "I", "N", "K">>, <<"S", "A", "V", "E">>,
      <<"B", "E", "S", "T">>, <<"D", "E", "A", "L">>, <<"S", "A", "L", "E">>,
      <<"S", "H", "O", "W">>, <<"C", "O", "D", "E">>, <<"T", "H", "I", "S">>,
      <<"T", "H", "A", "T">>, <<"W", "I", "T", "H">>, <<"Y", "O", "U", "R">>,
      <<"F", "R", "O", "M">>, <<"H", "E", "R", "E">>, <<"B", "E", "L", "O", "W">>,
      <<"C", "H", "E", "C", "K">> }

-----------------------------------------------------------------------------
(* Sponsorship detection (sponsorship.js): detectSponsorships              *)

ToUpperChar(c) ==
    CASE
         c = "a" -> "A" []
         c = "b" -> "B" []
         c = "c" -> "C" []
         c = "d" -> "D" []
         c = "e" -> "E" []
         c = "f" -> "F" []
         c = "g" -> "G" []
         c = "h" -> "H" []
         c = "i" -> "I" []
         c = "j" -> "J" []
         c = "k" -> "K" []
         c = "l" -> "L" []
         c = "m" -> "M" []
         c = "n" -> "N" []
         c = "o" -> "O" []
         c = "p" -> "P" []
         c = "q" -> "Q" []
         c = "r" -> "R" []
         c = "s" -> "S" []
         c = "t" -> "T" []
         c = "u" -> "U" []
         c = "v" -> "V" []
         c = "w" -> "W" []
         c = "x" -> "X" []
         c = "y" -> "Y" []
         c = "z" -> "Z" []
         OTHER -> c

toUpperCase(str) == [i \in 1..Len(str) |-> ToUpperChar(str[i])]

IsSpaceChar(c) == c \in SpaceChars

\* String.prototype.trim
RECURSIVE TrimStart(_)
TrimStart(str) ==
    IF str # <<>> /\ IsSpaceChar(Head(str)) THEN TrimStart(Tail(str)) ELSE str

RECURSIVE TrimEnd(_)
TrimEnd(str) ==
    IF str # <<>> /\ IsSpaceChar(str[Len(str)])
    THEN TrimEnd(SubSeq(str, 1, Len(str) - 1)) ELSE str

trim(str) == TrimEnd(TrimStart(str))

SetMax(S) == CHOOSE x \in S : \A y \in S : y <= x
SetMin(S) == CHOOSE x \in S : \A y \in S : x <= y

\* A pattern with one capturing group, as prefix (group) suffix.  In these
\* patterns the only choice the prefix leaves is the length of its final
\* greedy \s+ run, so the backtracking order tries its longest end first.
Capturing(prefix, group, suffix, lazy) ==
    [prefix |-> prefix, group |-> group, suffix |-> suffix, lazy |-> lazy]

\* /\bcode[:\s]+([A-Z0-9_-]{3,20})\b/gi
PromoCodeChars == LowerLetters \cup DigitChars \cup {"_", "-"}
PROMO_CODE_REGEX ==
    Capturing(Cat(<<WordB, Lit(<<"c", "o", "d", "e">>), Plus(Cls({":"} \cup SpaceChars))>>),
              Rep(Cls(PromoCodeChars), 3, 20), WordB, FALSE)

\* /(?:sponsored|brought\s+to\s+you)\s+by\s+([\w\s&'.]+?)(?:\.|,|!|\n|$)/i
BrandChars == WordChars \cup SpaceChars \cup {"&", "'", "."}
BRAND_BY_REGEX ==
    Capturing(Cat(<<Alt(<<Lit(<<"s", "p", "o", "n", "s", "o", "r", "e", "d">>),
                          Cat(<<Lit(<<"b", "r", "o", "u", "g", "h", "t">>), Plus(Cls(SpaceChars)), Lit(<<"t", "o">>),
                                Plus(Cls(SpaceChars)), Lit(<<"y", "o", "u">>)>>)>>),
                    Plus(Cls(SpaceChars)), Lit(<<"b", "y">>), Plus(Cls(SpaceChars))>>),
              Plus(Cls(BrandChars)),
              Alt(<<Lit(<<".">>), Lit(<<",">>), Lit(<<"!">>), Lit(<<"\n">>), EndOfInput>>),
              TRUE)

\* /\bthanks?\s+to\s+([\w\s&'.]+?)\s+for\s+sponsor/i
BRAND_THANKS_REGEX ==
    Capturing(Cat(<<WordB, Lit(<<"t", "h", "a", "n", "k">>), Optional(Lit(<<"s">>)), Plus(Cls(SpaceChars)),
                    Lit(<<"t", "o">>), Plus(Cls(SpaceChars))>>),
              Plus(Cls(BrandChars)),
              Cat(<<Plus(Cls(SpaceChars)), Lit(<<"f", "o", "r">>), Plus(Cls(SpaceChars)),
                    Lit(<<"s", "p", "o", "n", "s", "o", "r">>)>>),
              TRUE)

NoMatch == [found |-> FALSE, from |-> 0, to |-> 0, end |-> 0]

\* the group ends after which the suffix matches, for a group starting at p
GroupEnds(rx, s, p) == {e \in Ends(rx.group, s, {p}) : Ends(rx.suffix, s, {e}) # {}}

\* the match of rx that starts at position i, if there is one: where the
\* group lies (s[from + 1 .. to]) and where the match ends
MatchAt(rx, s, i) ==
    LET starts == {p \in Ends(rx.prefix, s, {i}) : GroupEnds(rx, s, p) # {}}
    IN  IF starts = {} THEN NoMatch
        ELSE LET p == SetMax(starts)
                 e == IF rx.lazy THEN SetMin(GroupEnds(rx, s, p)) ELSE SetMax(GroupEnds(rx, s, p))
             IN  [found |-> TRUE, from |-> p, to |-> e, end |-> SetMax(Ends(rx.suffix, s, {e}))]

\* rx.exec(s) with rx.lastIndex = index (0 for a pattern without the g
\* flag): the leftmost match at or after index
Exec(rx, s, index) ==
    LET starts == {i \in index..Len(s) : MatchAt(rx, s, i).found}
    IN  IF starts = {} THEN NoMatch ELSE MatchAt(rx, s, SetMin(starts))

\* the while loop of step 4: exec until null, from a fresh copy of the
\* pattern (lastIndex 0)
RECURSIVE PromoCodeMatches(_, _, _)
PromoCodeMatches(desc, lower, index) ==
    LET m == Exec(PROMO_CODE_REGEX, lower, index)
    IN  IF ~m.found THEN <<>>
        ELSE <<toUpperCase(SubSeq(desc, m.from + 1, m.to))>>
             \o PromoCodeMatches(desc, lower, m.end)

\* the filter of line 147 taken away
IsGenericWord_Never(code) == FALSE

IsGenericWord(code) == code \in GENERIC_WORDS

Signal(type, value) == [type |-> type, value |-> value]

\* step 1: one signal per disclosure hashtag the description contains
DisclosureSignals(lowerDesc) ==
    LET Has(tag) == includes(lowerDesc, tag)
        found    == SelectSeq(DISCLOSURE_HASHTAGS, Has)
    IN  [i \in 1..Len(found) |-> Signal("disclosure", found[i])]

\* match[0] of desc.match(rx) for a phrase pattern
MatchedFrom(rx, desc, lower, start) ==
    SubSeq(desc, start + 1, SetMax(Ends(rx, lower, {start})))
PhraseText(rx, desc, lower) ==
    MatchedFrom(rx, desc, lower, SetMin({i \in AllPositions(lower) : Ends(rx, lower, {i}) # {}}))

\* the brand named after 'sponsored by' or 'thanks to ... for sponsor'
NoBrand == [found |-> FALSE, brand |-> <<>>]
\* byMatch ?? thanksMatch
FirstMatch(by, thanks) == IF by.found THEN by ELSE thanks
\* the brand is kept when it has 2 to 40 characters
BrandKept(found, brand) ==
    IF found /\ Len(brand) >= 2 /\ Len(brand) <= 40
    THEN [found |-> TRUE, brand |-> brand] ELSE NoBrand
\* match[1].trim()
BrandIn(desc, m) == BrandKept(m.found, trim(SubSeq(desc, m.from + 1, m.to)))
BrandOf(desc, lower) ==
    BrandIn(desc, FirstMatch(Exec(BRAND_BY_REGEX, lower, 0), Exec(BRAND_THANKS_REGEX, lower, 0)))

\* step 2: the first phrase pattern that matches, and the brand it names
PhraseHits(lower) ==
    {k \in 1..Len(SPONSORSHIP_PHRASES) : Matches(SPONSORSHIP_PHRASES[k], lower)}
PhraseFound(desc, lower, hits) ==
    IF hits = {} THEN [signals |-> <<>>, brand |-> NoBrand]
    ELSE [signals |-> <<Signal("phrase",
                               trim(PhraseText(SPONSORSHIP_PHRASES[SetMin(hits)], desc, lower)))>>,
          brand |-> BrandOf(desc, lower)]
PhraseScan(desc, lower) == PhraseFound(desc, lower, PhraseHits(lower))

\* step 3: the names of the affiliate patterns that match, in table order
AffiliateNames(lower) ==
    LET Hit(entry) == Matches(entry.pattern, lower)
        found      == SelectSeq(AFFILIATE_PATTERNS, Hit)
    IN  [i \in 1..Len(found) |-> found[i].name]

\* step 4: the codes that are not generic words, in match order
PromoCodesOf(desc, lower) ==
    LET NotGeneric(code) == ~IsGenericWord(code)
    IN  SelectSeq(PromoCodeMatches(desc, lower, 0), NotGeneric)

\* steps 1 to 3 of the loop body for one description
Scanned(disclosure, phrase, affiliates) ==
    [signals    |-> disclosure \o phrase.signals
                    \o [i \in 1..Len(affiliates) |-> Signal("affiliate", affiliates[i])],
     disclosures |-> Len(disclosure),
     brand      |-> phrase.brand,
     affiliates |-> affiliates]
ScanLower(desc, lower) ==
    Scanned(DisclosureSignals(lower), PhraseScan(desc, lower), AffiliateNames(lower))
ScanDescription(desc) == ScanLower(desc, toLowerCase(desc))

\* The descriptions tried: those of the repository's tests, one with a
\* generic word and a code in mixed case, and one with a generic word only.
DescriptionSamples ==
    << <<"U", "s", "e", " ", "c", "o", "d", "e", " ", "T", "H", "E", " ", "f", "o", "r", " ", "d",
         "i", "s", "c", "o", "u", "n", "t", ".", " ", "A", "l", "s", "o", " ", "c", "o",
         "d", "e", " ", "F", "O", "R", " ", "w", "o", "r", "k", "s", ".">>,
       <<"U", "s", "e", " ", "c", "o", "d", "e", " ", "T", "E", "C", "H", "G", "U", "Y", "2", "0",
         " ", "f", "o", "r", " ", "2", "0", "%", " ", "o", "f", "f", "!">>,
       <<"S", "p", "o", "n", "s", "o", "r", "e", "d", " ", "b", "y", " ", "B", "r", "a", "n", "d",
         "A", ".">>,
       <<"N", "o", " ", "s", "p", "o", "n", "s", "o", "r", "s", "h", "i", "p", " ", "h", "e", "r",
         "e", ".">>,
       <<"T", "h", "a", "n", "k", "s", " ", "t", "o", " ", "B", "r", "a", "n", "d", "B", " ", "f",
         "o", "r", " ", "s", "p", "o", "n", "s", "o", "r", "i", "n", "g", "!">>,
       <<"#", "a", "d", " ", "C", "h", "e", "c", "k", " ", "o", "u", "t", " ", "t", "h", "i", "s",
         " ", "a", "w", "e", "s", "o", "m", "e", " ", "p", "r", "o", "d", "u", "c", "t",
         "!", " ", "#", "s", "p", "o", "n", "s", "o", "r", "e", "d">>,
       <<"C", "h", "e", "c", "k", " ", "i", "t", " ", "o", "u", "t", ":", " ", "h", "t", "t", "p",
         "s", ":", "/", "/", "a", "m", "z", "n", ".", "t", "o", "/", "3", "a", "b", "c",
         "1", "2", "3">>,
       <<"m", "y", " ", "c", "o", "d", "e", ":", " ", "F", "r", "e", "e", " ", "a", "n", "d", " ",
         "C", "O", "D", "E", " ", "s", "a", "v", "e", "-", "1", "0">>,
       <<"c", "o", "d", "e", " ", "f", "r", "e", "e">> >>

\* ScanDescription and PromoCodesOf tabulated over the descriptions tried
\* (every description a video of this model carries, and the empty one), so
\* that each description is scanned once
TriedDescriptions == {DescriptionSamples[k] : k \in 1..Len(DescriptionSamples)} \cup {<<>>}
ScanTable == [d \in TriedDescriptions |-> ScanDescription(d)]
PromoTable == [d \in TriedDescriptions |-> PromoCodesOf(d, toLowerCase(d))]

ScanOf(desc) == ScanTable[desc]
PromoCodesFor(desc) == PromoTable[desc]

\* Mutant: one exec on PROMO_CODE_REGEX itself, which has the g flag: the
\* search starts at its lastIndex and leaves the end of the match there
\* (0 after a failed search).
PromoStep_SharedSingle(desc, shared) ==
    LET m    == IF shared > Len(desc) THEN NoMatch
                ELSE Exec(PROMO_CODE_REGEX, toLowerCase(desc), shared)
        code == toUpperCase(SubSeq(desc, m.from + 1, m.to))
    IN  [codes |-> IF m.found /\ ~IsGenericWord(code) THEN <<code>> ELSE <<>>,
         lastIndex |-> IF m.found THEN m.end ELSE 0]

\* Step 4 of the loop body.  The loop runs on codeRx, a fresh copy of
\* PROMO_CODE_REGEX whose lastIndex starts at 0, so the lastIndex of the
\* module-level pattern (shared) is neither read nor written.
PromoStep(desc, shared) ==
    [codes |-> PromoCodesFor(desc), lastIndex |-> shared]

\* video.description ?? ''
DescriptionOf(video) ==
    IF video.description.t \in {"undefined", "null"} THEN <<>> ELSE video.description.chars

\* brandMentions.set(key, (brandMentions.get(key) ?? 0) + 1) on a Map kept
\* as its entries in insertion order
MapIncrement(map, key) ==
    IF \E i \in 1..Len(map) : map[i].brand = key
    THEN [i \in 1..Len(map) |->
            IF map[i].brand = key THEN [map[i] EXCEPT !.count = @ + 1] ELSE map[i]]
    ELSE Append(map, [brand |-> key, count |-> 1])

RECURSIVE MapIncrementAll(_, _)
MapIncrementAll(map, keys) ==
    IF keys = <<>> THEN map ELSE MapIncrementAll(MapIncrement(map, Head(keys)), Tail(keys))

\* set.add(x) on a Set kept as its elements in insertion order
SetAdd(set, x) == IF \E i \in 1..Len(set) : set[i] = x THEN set ELSE Append(set, x)

RECURSIVE SetAddAll(_, _)
SetAddAll(set, xs) == IF xs = <<>> THEN set ELSE SetAddAll(SetAdd(set, Head(xs)), Tail(xs))

\* the accumulators of the loop, and the lastIndex of PROMO_CODE_REGEX
EmptyTally(shared) ==
    [sponsoredVideos |-> <<>>, brandMentions |-> <<>>, promoCodes |-> <<>>,
     affiliateNets |-> <<>>, disclosureCount |-> 0, lastIndex |-> shared]

\* the signals of one video: those of steps 1 to 3, then one per promo code
VideoSignals(scan, promo) ==
    scan.signals \o [i \in 1..Len(promo.codes) |-> Signal("promo_code", promo.codes[i])]

\* if (signals.length > 0) sponsoredVideos.push({...})
PushIfSignals(tally, video, signals) ==
    IF Len(signals) > 0
    THEN Append(tally.sponsoredVideos, [videoId |-> video.videoId, signals |-> signals])
    ELSE tally.sponsoredVideos

\* the accumulators after one video with the given scan and promo codes
Tallied(tally, sponsoredVideos, scan, promo) ==
    [sponsoredVideos |-> sponsoredVideos,
     brandMentions |->
        MapIncrementAll(tally.brandMentions,
                        (IF scan.brand.found THEN <<scan.brand.brand>> ELSE <<>>)
                        \o scan.affiliates),
     promoCodes |-> SetAddAll(tally.promoCodes, promo.codes),
     affiliateNets |-> SetAddAll(tally.affiliateNets, scan.affiliates),
     disclosureCount |-> tally.disclosureCount + scan.disclosures,
     lastIndex |-> promo.lastIndex]

ScanWith(tally, video, scan, promo) ==
    Tallied(tally, PushIfSignals(tally, video, VideoSignals(scan, promo)), scan, promo)

\* every video pushed, whatever its signals
ScanWith_AlwaysPush(tally, video, scan, promo) ==
    Tallied(tally,
            Append(tally.sponsoredVideos,
                   [videoId |-> video.videoId, signals |-> VideoSignals(scan, promo)]),
            scan, promo)

\* ScanVideo without the test signals.length > 0: every video is pushed
ScanVideo_AlwaysPush(tally, video) ==
    ScanWith_AlwaysPush(tally, video,
                        ScanOf(DescriptionOf(video)),
                        PromoStep(DescriptionOf(video), tally.lastIndex))

\* One iteration of the for loop over the videos.  Of a sponsored video the
\* id and the signals are kept; title and publish date are copied through.
ScanVideo(tally, video) ==
    ScanWith(tally, video,
             ScanOf(DescriptionOf(video)),
             PromoStep(DescriptionOf(video), tally.lastIndex))

RECURSIVE ScanVideos(_, _)
ScanVideos(tally, videos) ==
    IF videos = <<>> THEN tally ELSE ScanVideos(ScanVideo(tally, Head(videos)), Tail(videos))

\* .sort((a, b) => b[1] - a[1]), a stable sort
RECURSIVE BrandInsert(_, _)
BrandInsert(sorted, entry) ==
    IF sorted = <<>> THEN <<entry>>
    ELSE IF Head(sorted).count >= entry.count
         THEN <<Head(sorted)>> \o BrandInsert(Tail(sorted), entry)
         ELSE <<entry>> \o sorted

RECURSIVE SortBrands(_)
SortBrands(entries) ==
    IF entries = <<>> THEN <<>>
    ELSE BrandInsert(SortBrands(SubSeq(entries, 1, Len(entries) - 1)), entries[Len(entries)])

\* The labels are cut before their dash.
labelSponsorshipRate(rate) ==
    IF rate >= 60 THEN "Very High"
    ELSE IF rate >= 35 THEN "High"
    ELSE IF rate >= 15 THEN "Moderate"
    ELSE IF rate > 0 THEN "Low"
    ELSE "None detected"

emptyReport ==
    [totalVideosScanned |-> 0, totalDetected |-> 0, sponsorshipRate |-> 0,
     sponsorshipRateLabel |-> "None detected", hasProperDisclosure |-> TRUE,
     disclosureRate |-> 100, detectedBrands |-> <<>>, promoCodes |-> <<>>,
     affiliateNetworks |-> <<>>, sponsoredVideos |-> <<>>]

\* The report of detectSponsorships(videos), and the lastIndex the call
\* leaves in PROMO_CODE_REGEX when it finds it at shared.
ReportOf(total, tally, sorted, detected, sponsorshipRate) ==
    [totalVideosScanned |-> total,
     totalDetected |-> detected,
     sponsorshipRate |-> sponsorshipRate,
     sponsorshipRateLabel |-> labelSponsorshipRate(sponsorshipRate),
     hasProperDisclosure |-> tally.disclosureCount > 0,
     disclosureRate |->
        IF detected > 0 THEN MathRound(Q(tally.disclosureCount * 100, detected)) ELSE 100,
     detectedBrands |->
        [i \in 1..Len(sorted) |->
            [brand |-> sorted[i].brand, mentionCount |-> sorted[i].count]],
     promoCodes |-> tally.promoCodes,
     affiliateNetworks |-> tally.affiliateNets,
     sponsoredVideos |-> tally.sponsoredVideos]

ReportOfTally(total, tally) ==
    [report |-> ReportOf(total, tally, SortBrands(tally.brandMentions),
                         Len(tally.sponsoredVideos),
                         MathRound(Q(Len(tally.sponsoredVideos) * 100, total))),
     lastIndex |-> tally.lastIndex]

DetectRun(videos, shared) ==
    IF Len(videos) = 0 THEN [report |-> emptyReport, lastIndex |-> shared]
    ELSE ReportOfTally(Len(videos), ScanVideos(EmptyTally(shared), videos))

-----------------------------------------------------------------------------
(* Calls of detectSponsorships                                             *)

\* The longest video list.
MaxSponsorVideos == 4

\* a description by its number; one past the last is a video without one
DescriptionNo(k) ==
    IF k > Len(DescriptionSamples) THEN Undefined
    ELSE [t |-> "str", chars |-> DescriptionSamples[k]]

SponsorVideoLists ==
    UNION {{[i \in 1..n |-> [videoId |-> i, description |-> DescriptionNo(ks[i])]]
              : ks \in [1..n -> 1..(Len(DescriptionSamples) + 1)]}
           : n \in 0..MaxSponsorVideos}

\* detectSponsorships(videos) as the module finds its pattern
detectSponsorships(videos) == DetectRun(videos, lastIndex).report

InitSponsor ==
    /\ StateIdle
    /\ done = FALSE
    /\ ret = NoResult
    /\ fn = "detectSponsorships"
    /\ args \in [videos : SponsorVideoLists]

DetectSponsorships ==
    /\ ~done
    /\ fn = "detectSponsorships"
    /\ ret' = detectSponsorships(args.videos)
    /\ lastIndex' = DetectRun(args.videos, lastIndex).lastIndex
    /\ done' = TRUE
    /\ UNCHANGED <<fn, args, seen, batchVars, clientVars>>

NextSponsor == DetectSponsorships

SpecSponsor == InitSponsor /\ [][NextSponsor]_vars


-----------------------------------------------------------------------------
(* Claims about detectSponsorships                                         *)

SponsorDone == done /\ fn = "detectSponsorships"

\* a video whose description gives a signal of some family: a disclosure
\* hashtag, a sponsorship phrase, an affiliate pattern or a promo code
ProducesSignal(video) ==
    LET desc == DescriptionOf(video)
    IN  \/ ScanOf(desc).signals # <<>>
        \/ PromoCodesFor(desc) # <<>>

SignalVideos(videos) == {i \in 1..Len(videos) : ProducesSignal(videos[i])}

\* rate = Math.round(detected / scanned * 100), rounding half up
IsRoundedPercent(rate, detected, scanned) ==
    /\ rate * 2 * scanned <= 200 * detected + scanned
    /\ 200 * detected + scanned < (rate + 1) * 2 * scanned

\* C11: for a non-empty video list the report has totalVideosScanned = the
\* number of videos, totalDetected = the number of videos that produced at
\* least one signal (so at most totalVideosScanned), and sponsorshipRate =
\* round(totalDetected / totalVideosScanned * 100); 2 of 4 give 50.
C11_CountsAndRate ==
    (SponsorDone /\ Len(args.videos) > 0) =>
        /\ ret.totalVideosScanned = Len(args.videos)
        /\ ret.totalDetected = Cardinality(SignalVideos(args.videos))
        /\ ret.totalDetected <= ret.totalVideosScanned
        /\ IsRoundedPercent(ret.sponsorshipRate, ret.totalDetected, ret.totalVideosScanned)
        /\ (ret.totalVideosScanned = 4 /\ ret.totalDetected = 2 => ret.sponsorshipRate = 50)

\* four videos of which two are detected, one by a promo code and one by a phrase
C11_Witness ==
    /\ SponsorDone
    /\ Len(args.videos) = 4
    /\ ret.totalDetected = 2
    /\ ret.sponsorshipRate = 50
    /\ \E i \in 1..4 : ~ProducesSignal(args.videos[i])

\* a rate that is rounded up: 2 of 3 give 67
C11_WitnessRounded ==
    /\ SponsorDone
    /\ ret.totalVideosScanned = 3
    /\ ret.totalDetected = 2
    /\ ret.sponsorshipRate = 67

\* the promo_code signals of a report
SignalsOf(entry) == {entry.signals[k] : k \in 1..Len(entry.signals)}
PromoSignalValues(report) ==
    UNION {{sig.value : sig \in {x \in SignalsOf(report.sponsoredVideos[i]) :
                                    x.type = "promo_code"}}
           : i \in 1..Len(report.sponsoredVideos)}

ReportedCodes(report) ==
    {report.promoCodes[i] : i \in 1..Len(report.promoCodes)} \cup PromoSignalValues(report)

\* code is the upper-cased text found in desc after the word 'code' (in any
\* case) and a run of colons and white space
FollowsCode(desc, code) ==
    LET lower == toLowerCase(desc)
    IN  \E i \in 1..Len(desc) : \E j \in (i + 4)..Len(desc) :
           /\ i + 3 <= Len(desc)
           /\ SubSeq(lower, i, i + 3) = <<"c", "o", "d", "e">>
           /\ \A k \in (i + 4)..j : desc[k] \in SpaceChars \cup {":"}
           /\ j + Len(code) <= Len(desc)
           /\ toUpperCase(SubSeq(desc, j + 1, j + Len(code))) = code

GenericOnlyDescription == DescriptionSamples[1]

\* C12: no word of GENERIC_WORDS is in promoCodes or the value of a
\* promo_code signal, whatever the case of the letters in the description;
\* every reported code is the upper-cased token of 3 to 20 characters that
\* follows 'code' in some description; videos that all say 'Use code THE
\* for discount. Also code FOR works.' give no promo code.
C12_NoGenericPromoCode ==
    SponsorDone =>
        /\ \A code \in ReportedCodes(ret) :
              /\ code \notin GENERIC_WORDS
              /\ Len(code) >= 3 /\ Len(code) <= 20
              /\ \A k \in 1..Len(code) : ToUpperChar(code[k]) = code[k]
              /\ \A k \in 1..Len(code) : toLowerCase(code)[k] \in WordChars \cup {"-"}
              /\ \E i \in 1..Len(args.videos) :
                    FollowsCode(DescriptionOf(args.videos[i]), code)
        /\ PromoSignalValues(ret) = {ret.promoCodes[i] : i \in 1..Len(ret.promoCodes)}
        /\ (\A i \in 1..Len(args.videos) :
                DescriptionOf(args.videos[i]) = GenericOnlyDescription)
              => ReportedCodes(ret) = {}

\* 'my code: Free and CODE save-10': the generic words Free and CODE are
\* dropped and SAVE-10 is reported
C12_Witness ==
    /\ SponsorDone
    /\ Len(args.videos) = 1
    /\ DescriptionOf(args.videos[1]) = DescriptionSamples[8]
    /\ ret.promoCodes = << <<"S", "A", "V", "E", "-", "1", "0">> >>
    /\ PromoSignalValues(ret) = {<<"S", "A", "V", "E", "-", "1", "0">>}

\* the description of the test: detected by its phrase, with no promo code
C12_WitnessGenericOnly ==
    /\ SponsorDone
    /\ Len(args.videos) = 2
    /\ \A i \in 1..2 : DescriptionOf(args.videos[i]) = GenericOnlyDescription
    /\ ret.totalDetected = 2
    /\ ret.promoCodes = <<>>

-----------------------------------------------------------------------------
(* Claims about the niche adjustment and the brand deal experience         *)

RateDone == done /\ fn = "generateRateCard"

\* the table entries that some category matches
MatchedNiches(cats) ==
    {k \in 1..Len(NICHE_MULTIPLIERS) :
        \E c \in 1..Len(cats) : NicheMatches(cats[c], NICHE_MULTIPLIERS[k])}

HighestMultiplier(matched) ==
    CHOOSE m \in {NICHE_MULTIPLIERS[k].mult : k \in matched} :
        \A k \in matched : NICHE_MULTIPLIERS[k].mult <= m

\* C13: when some content category matches a niche of the table, the niche
\* multiplier of the rate card is the highest multiplier among the matched
\* niches and the label is that niche; General / 1.0 is reported only when
\* no category matches (so only Gaming gives Gaming / 0.9 and only Music
\* gives Music / 0.8).
C13_HighestMatchedNiche ==
    RateDone =>
        LET matched == MatchedNiches(args.contentCategories)
            niche   == ret.adjustments.niche
        IN  IF matched = {}
            THEN niche.category = "General" /\ niche.multiplier = 100
            ELSE /\ niche.multiplier = HighestMultiplier(matched)
                 /\ \E k \in matched : /\ NICHE_MULTIPLIERS[k].niche = niche.category
                                        /\ NICHE_MULTIPLIERS[k].mult = niche.multiplier

\* What the loop computes: the highest multiplier above 1.0 among the
\* matched niches with its label, and General / 1.0 when no matched niche
\* has a multiplier above 1.0.
C13_HighestAboveOne ==
    RateDone =>
        LET above == {k \in MatchedNiches(args.contentCategories) :
                         NICHE_MULTIPLIERS[k].mult > 100}
            niche == ret.adjustments.niche
        IN  IF above = {}
            THEN niche.category = "General" /\ niche.multiplier = 100
            ELSE /\ niche.multiplier = HighestMultiplier(above)
                 /\ \E k \in above : /\ NICHE_MULTIPLIERS[k].niche = niche.category
                                      /\ NICHE_MULTIPLIERS[k].mult = niche.multiplier

\* the category Music alone is reported as General / 1.0
C13_MusicIsGeneral ==
    /\ RateDone
    /\ args.contentCategories = << <<"M", "u", "s", "i", "c">> >>
    /\ ret.adjustments.niche = [category |-> "General", multiplier |-> 100]

\* Technology alone is reported as Technology / 1.3
C13_TechnologyWitness ==
    /\ RateDone
    /\ args.contentCategories = << <<"T", "e", "c", "h", "n", "o", "l", "o", "g", "y">> >>
    /\ ret.adjustments.niche = [category |-> "Technology", multiplier |-> 130]

\* C14: brandDealExperience is 'Unknown' exactly when no sponsorship report
\* is supplied (null, as the pipeline passes with detection disabled, or
\* left out); with a report it follows totalDetected alone: 10 or more very
\* experienced, 5..9 experienced, 1..4 some experience, 0 no history, and
\* never 'Unknown'.
C14_UnknownIffNoReport ==
    RateDone =>
        LET sponsorship == args.sponsorship
            experience  == ret.brandDealExperience
        IN  /\ experience = "Unknown" <=> sponsorship.t \in {"null", "undefined"}
            /\ sponsorship.t = "obj" =>
                  experience =
                    (CASE sponsorship.totalDetected >= 10 -> "Very experienced"
                       [] sponsorship.totalDetected \in 5..9 -> "Experienced"
                       [] sponsorship.totalDetected \in 1..4 -> "Some experience"
                       [] sponsorship.totalDetected = 0 -> "No sponsorship history detected")

\* a report without detections gives the no-history text
C14_Witness ==
    /\ RateDone
    /\ args.sponsorship.t = "obj"
    /\ args.sponsorship.totalDetected = 0
    /\ ret.brandDealExperience = "No sponsorship history detected"

\* no report gives 'Unknown'
C14_WitnessUnknown ==
    /\ RateDone
    /\ args.sponsorship = Null
    /\ ret.brandDealExperience = "Unknown"

-----------------------------------------------------------------------------
(* The batch loop of main.js                                               *)

\* The longest list of channels.
MaxChannels == 3

\* channel inputs, and messages of the errors processChannel throws
ChannelInputs == {"@alpha", "UCbeta"}
ErrorMessages == {"Could not resolve channel ID", "No videos found in uploads playlist"}

\* the message of a rejected Actor.pushData
PushError == "pushData rejected"

ChannelLists == UNION {[1..n -> ChannelInputs] : n \in 1..MaxChannels}

\* the record pushed for a processed channel (of the result, its status and
\* the channel), and the record pushed by the catch block
ResultRecord(channelInput) == [status |-> "success", channelId |-> channelInput]
FailureRecord(channelInput, message) ==
    [channelInput |-> channelInput, error |-> message, status |-> "failed"]

\* one call of processChannel, as attempted remembers it
Attempt(channelInput, outcome, message) ==
    [channelInput |-> channelInput, outcome |-> outcome, error |-> message]

InitBatch ==
    /\ ModuleIdle
    /\ ClientIdle
    /\ fn = "main"
    /\ args = [t |-> "input"]
    /\ ret = NoResult
    /\ done = FALSE
    /\ channels \in ChannelLists
    /\ cursor = 0
    /\ processed = 0
    /\ skipped = 0
    /\ failed = 0
    /\ dataset = <<>>
    /\ loop = "running"
    /\ attempted = <<>>
    /\ lostWrites = 0

\* the loop is at a channel
AtChannel == loop = "running" /\ cursor < Len(channels)

BatchFrame == UNCHANGED <<callVars, moduleVars, clientVars, channels>>

\* processChannel returns a result, which is pushed: processed++
ChannelSucceeds ==
    /\ AtChannel
    /\ attempted' = Append(attempted, Attempt(channels[cursor + 1], "result", ""))
    /\ dataset' = Append(dataset, ResultRecord(channels[cursor + 1]))
    /\ processed' = processed + 1
    /\ cursor' = cursor + 1
    /\ UNCHANGED <<skipped, failed, loop, lostWrites>>
    /\ BatchFrame

\* Mutant: a filtered channel is passed over without skipped++.
ChannelSkipped_NotCounted ==
    /\ AtChannel
    /\ attempted' = Append(attempted, Attempt(channels[cursor + 1], "null", ""))
    /\ cursor' = cursor + 1
    /\ UNCHANGED <<processed, skipped, failed, dataset, loop, lostWrites>>
    /\ BatchFrame

\* processChannel returns null (a filter): skipped++; continue
ChannelSkipped ==
    /\ AtChannel
    /\ attempted' = Append(attempted, Attempt(channels[cursor + 1], "null", ""))
    /\ skipped' = skipped + 1
    /\ cursor' = cursor + 1
    /\ UNCHANGED <<processed, failed, dataset, loop, lostWrites>>
    /\ BatchFrame

\* Mutant: no catch block; the exception leaves the loop.
ChannelThrows_Escapes(message) ==
    /\ AtChannel
    /\ attempted' = Append(attempted, Attempt(channels[cursor + 1], "throws", message))
    /\ loop' = "fatal"
    /\ UNCHANGED <<cursor, processed, skipped, failed, dataset, lostWrites>>
    /\ BatchFrame

\* processChannel throws: the catch block counts the failure and pushes the
\* failure record, and the loop goes on
ChannelThrows(message) ==
    /\ AtChannel
    /\ attempted' = Append(attempted, Attempt(channels[cursor + 1], "throws", message))
    /\ failed' = failed + 1
    /\ dataset' = Append(dataset, FailureRecord(channels[cursor + 1], message))
    /\ cursor' = cursor + 1
    /\ UNCHANGED <<processed, skipped, loop, lostWrites>>
    /\ BatchFrame

\* processChannel returns a result whose push is rejected inside the try
\* block: handled as a failure of the channel
ResultPushRejected ==
    /\ AtChannel
    /\ attempted' = Append(attempted, Attempt(channels[cursor + 1], "throws", PushError))
    /\ failed' = failed + 1
    /\ dataset' = Append(dataset, FailureRecord(channels[cursor + 1], PushError))
    /\ cursor' = cursor + 1
    /\ UNCHANGED <<processed, skipped, loop, lostWrites>>
    /\ BatchFrame

\* processChannel throws and the push of the failure record is rejected too:
\* that exception is thrown inside the catch block and leaves the loop
FailureRecordRejected(message) ==
    /\ AtChannel
    /\ attempted' = Append(attempted, Attempt(channels[cursor + 1], "throws", message))
    /\ failed' = failed + 1
    /\ lostWrites' = lostWrites + 1
    /\ loop' = "fatal"
    /\ UNCHANGED <<cursor, processed, skipped, dataset>>
    /\ BatchFrame

\* after the last channel: the summary of the counters
Summarize ==
    /\ loop = "running"
    /\ cursor = Len(channels)
    /\ loop' = "ended"
    /\ ret' = [processedChannels |-> processed, skippedChannels |-> skipped,
               failedChannels |-> failed, totalChannels |-> Len(channels)]
    /\ done' = TRUE
    /\ UNCHANGED <<fn, args, moduleVars, clientVars>>
    /\ UNCHANGED <<channels, cursor, processed, skipped, failed, dataset, attempted, lostWrites>>

NextBatch ==
    \/ ChannelSucceeds
    \/ ChannelSkipped
    \/ \E message \in ErrorMessages : ChannelThrows(message)
    \/ ResultPushRejected
    \/ \E message \in ErrorMessages : FailureRecordRejected(message)
    \/ Summarize

SpecBatch == InitBatch /\ [][NextBatch]_vars

\* every await of the loop settles (requests time out), so the loop moves on
SpecBatchFair == SpecBatch /\ WF_vars(NextBatch)

\* the failure records of a dataset, and the attempts that threw, in order
IsFailure(record) == record.status = "failed"
Threw(attempt) == attempt.outcome = "throws"
FailureOf(attempt) == FailureRecord(attempt.channelInput, attempt.error)

FailuresExpected ==
    LET thrown == SelectSeq(attempted, Threw)
    IN  [i \in 1..Len(thrown) |-> FailureOf(thrown[i])]

\* as long as the dataset takes the failure records: the loop is not left by
\* an exception, the channels were attempted once each in input order, and
\* each attempt that threw has exactly one failure record
IsolatedFailures ==
    lostWrites = 0 =>
        /\ loop # "fatal"
        /\ Len(attempted) = cursor
        /\ cursor <= Len(channels)
        /\ \A i \in 1..cursor : attempted[i].channelInput = channels[i]
        /\ loop = "ended" => cursor = Len(channels)
        /\ SelectSeq(dataset, IsFailure) = FailuresExpected
        /\ failed = Len(FailuresExpected)

-----------------------------------------------------------------------------
(* YouTubeClient: _request and getQuotaStats                               *)

\* Mutant: a third delay, so a fourth attempt.
RETRY_DELAYS_Three == <<500, 1500, 4500>>

\* Retry delays in ms for transient failures
RETRY_DELAYS == <<500, 1500>>

\* The most calls of _request in a run.
MaxRequests == 3

\* quotaCost of a call: 1 is what every caller passes; the large cost brings
\* quotaUsed past the daily quota within MaxRequests calls
QuotaCosts == {1, 5000}

\* what an attempt can end with besides a response: an HTTP error status
\* that makes _request throw at once, or a failure that the loop retries
\* (every error that is not a 400, 403 or 404)
FatalStatuses == {"400", "403", "404"}
RetriedFailures == {"429", "500", "503", "network error"}

DAILY_QUOTA == 10000

\* Mutant: the remaining quota without Math.max(0, ...).
getQuotaStats_Unclamped(used, count) ==
    [t |-> "stats", quotaUsed |-> used, requestCount |-> count,
     estimatedRemaining |-> DAILY_QUOTA - used,
     estimatedChannelsRemaining |-> (DAILY_QUOTA - used) \div 4]

getQuotaStats(used, count) ==
    LET remaining == Max(0, DAILY_QUOTA - used)
    IN  [t |-> "stats", quotaUsed |-> used, requestCount |-> count,
         estimatedRemaining |-> remaining,
         estimatedChannelsRemaining |-> remaining \div 4]

InitClient ==
    /\ ModuleIdle
    /\ BatchIdle
    /\ ClientIdle
    /\ fn = "YouTubeClient"
    /\ args = [t |-> "input"]
    /\ ret = NoResult
    /\ done = FALSE

InFlight == request.state \in {"trying", "sleeping"}

ClientFrame == UNCHANGED <<moduleVars, batchVars, resolveVars, paging, fn, args, done>>

\* a caller awaits this._request(endpoint, params, quotaCost)
StartRequest(quotaCost) ==
    /\ ~InFlight
    /\ calls < MaxRequests
    /\ calls' = calls + 1
    /\ request' = [state |-> "trying", quotaCost |-> quotaCost, attempt |-> 0,
                   outcomes |-> <<>>, sleeps |-> <<>>]
    /\ UNCHANGED <<quotaUsed, requestCount, succeeded, ret>>
    /\ ClientFrame

\* gotScraping resolves: the counters are charged and the body is returned
AttemptSucceeds ==
    /\ request.state = "trying"
    /\ quotaUsed' = quotaUsed + request.quotaCost
    /\ requestCount' = requestCount + 1
    /\ succeeded' = Append(succeeded, request.quotaCost)
    /\ request' = [request EXCEPT !.state = "returned", !.outcomes = Append(@, "ok")]
    /\ UNCHANGED <<calls, ret>>
    /\ ClientFrame

\* gotScraping rejects with status 400, 403 or 404: thrown at once
AttemptRejected(status) ==
    /\ request.state = "trying"
    /\ request' = [request EXCEPT !.state = "threw", !.outcomes = Append(@, status)]
    /\ UNCHANGED <<quotaUsed, requestCount, succeeded, calls, ret>>
    /\ ClientFrame

\* gotScraping rejects otherwise: sleep and retry while a delay is left,
\* else the loop ends and the call throws
AttemptFails(failure) ==
    /\ request.state = "trying"
    /\ request' = [request EXCEPT
                     !.state = IF request.attempt < Len(RETRY_DELAYS)
                               THEN "sleeping" ELSE "threw",
                     !.outcomes = Append(@, failure)]
    /\ UNCHANGED <<quotaUsed, requestCount, succeeded, calls, ret>>
    /\ ClientFrame

\* sleep(RETRY_DELAYS[attempt]) is over: continue with attempt + 1
Wake ==
    /\ request.state = "sleeping"
    /\ request' = [request EXCEPT !.state = "trying", !.attempt = @ + 1,
                     !.sleeps = Append(@, RETRY_DELAYS[request.attempt + 1])]
    /\ UNCHANGED <<quotaUsed, requestCount, succeeded, calls, ret>>
    /\ ClientFrame

\* client.getQuotaStats(), between requests
GetQuotaStats ==
    /\ ~InFlight
    /\ ret' = getQuotaStats(quotaUsed, requestCount)
    /\ UNCHANGED <<quotaUsed, requestCount, request, succeeded, calls>>
    /\ ClientFrame

NextClient ==
    \/ \E quotaCost \in QuotaCosts : StartRequest(quotaCost)
    \/ AttemptSucceeds
    \/ \E status \in FatalStatuses : AttemptRejected(status)
    \/ \E failure \in RetriedFailures : AttemptFails(failure)
    \/ Wake
    \/ GetQuotaStats

SpecClient == InitClient /\ [][NextClient]_vars

\* the attempts of the call in progress, and those before the last one
Tries == IF request.state = "none" THEN 0 ELSE Len(request.outcomes)
EarlierOutcomes ==
    {request.outcomes[i] : i \in 1..(Len(request.outcomes) - 1)}
LastOutcome == request.outcomes[Len(request.outcomes)]

\* C17: a call of _request makes at most 3 attempts; a transient failure
\* (429, 500, 503, network error) is retried after 500 ms and then after
\* 1500 ms; the first successful response is returned with no further
\* attempt; after a third failure the call throws; a 400, 403 or 404 makes
\* it throw at once with no further attempt.
C17_AtMostThreeAttempts ==
    request.state # "none" =>
        /\ Tries <= 3
        /\ EarlierOutcomes \subseteq RetriedFailures
        /\ request.sleeps = SubSeq(<<500, 1500>>, 1, Len(request.sleeps))
        /\ request.state = "trying" =>
              /\ Len(request.sleeps) = Tries
              /\ request.outcomes \in Seq(RetriedFailures)
        /\ request.state = "sleeping" =>
              /\ Len(request.sleeps) = Tries - 1
              /\ Tries <= 2
              /\ LastOutcome \in RetriedFailures
        /\ request.state = "returned" =>
              /\ LastOutcome = "ok"
              /\ Len(request.sleeps) = Tries - 1
        /\ request.state = "threw" =>
              /\ Len(request.sleeps) = Tries - 1
              /\ \/ LastOutcome \in FatalStatuses
                 \/ LastOutcome \in RetriedFailures /\ Tries = 3
        /\ (Tries > 0 /\ LastOutcome = "ok") => request.state = "returned"
        /\ (Tries > 0 /\ LastOutcome \in FatalStatuses) => request.state = "threw"
        /\ (Tries = 3 /\ LastOutcome \in RetriedFailures) => request.state = "threw"

\* two transient failures, slept 500 and 1500 ms, then the response
C17_Witness ==
    /\ request.state = "returned"
    /\ request.outcomes = <<"429", "network error", "ok">>
    /\ request.sleeps = <<500, 1500>>

\* three failures: thrown after the third attempt
C17_WitnessGivenUp ==
    /\ request.state = "threw"
    /\ request.outcomes = <<"500", "503", "500">>

\* a 404 on the second attempt: thrown at once
C17_WitnessRejected ==
    /\ request.state = "threw"
    /\ request.outcomes = <<"503", "404">>
    /\ request.sleeps = <<500>>

\* the counters agree with the history of the successful requests, and the
\* last statistics read are those of their counters
QuotaAccounted ==
    /\ quotaUsed = SumSeq(succeeded)
    /\ requestCount = Len(succeeded)
    /\ ret # NoResult =>
          /\ ret.estimatedRemaining = Max(0, 10000 - ret.quotaUsed)
          /\ ret.estimatedRemaining >= 0

\* a step charges the counters exactly when an attempt succeeds, by the cost
\* of the request and by one; no step lowers them; getQuotaStats reads them
QuotaStep ==
    /\ quotaUsed' >= quotaUsed
    /\ requestCount' >= requestCount
    /\ IF request'.state = "returned" /\ request.state = "trying"
       THEN /\ quotaUsed' = quotaUsed + request.quotaCost
            /\ requestCount' = requestCount + 1
       ELSE /\ quotaUsed' = quotaUsed
            /\ requestCount' = requestCount
    /\ ret' # ret => /\ ret'.quotaUsed = quotaUsed
                     /\ ret'.requestCount = requestCount

\* C18: quotaUsed is the sum of the quota costs of the requests that
\* succeeded and requestCount their number; a failed attempt adds nothing, a
\* successful request adds its cost once, neither counter ever decreases,
\* and getQuotaStats reports estimatedRemaining = max(0, 10000 - quotaUsed),
\* never negative.
C18_QuotaAccounting == []QuotaAccounted /\ [][QuotaStep]_vars

\* three successful requests brought quotaUsed past the daily quota, one of
\* them after a failed attempt, and the remaining quota is reported as 0
C18_Witness ==
    /\ succeeded = <<5000, 5000, 5000>>
    /\ quotaUsed = 15000
    /\ requestCount = 3
    /\ Len(request.outcomes) > 1
    /\ ret # NoResult
    /\ ret.quotaUsed = 15000
    /\ ret.estimatedRemaining = 0

\* a request that failed three times left the counters as they were
C18_WitnessFailed ==
    /\ request.state = "threw"
    /\ Tries = 3
    /\ succeeded = <<1>>
    /\ quotaUsed = 1
    /\ requestCount = 1

-----------------------------------------------------------------------------
(* analyzeVideos (analytics.js)                                            *)

QNeg(x) == <<-x[1], x[2]>>
QSub(x, y) == QAdd(x, QNeg(y))
\* x / y for y > 0
QDiv(x, y) == QMul(x, <<y[2], y[1]>>)

\* r2(n) = Math.round(n * 100) / 100, carried in hundredths
r2(x) == MathRound(QMul(x, QInt(100)))

\* sum(arr, key)
RECURSIVE SumKey(_, _)
SumKey(arr, key) == IF arr = <<>> THEN 0 ELSE Head(arr)[key] + SumKey(Tail(arr), key)

\* sum(arr) on numbers
RECURSIVE QSum(_)
QSum(arr) == IF arr = <<>> THEN QInt(0) ELSE QAdd(Head(arr), QSum(Tail(arr)))

\* [...arr].sort((a, b) => a - b) on integers
RECURSIVE InsertAscending(_, _)
InsertAscending(sorted, x) ==
    IF sorted = <<>> THEN <<x>>
    ELSE IF Head(sorted) <= x THEN <<Head(sorted)>> \o InsertAscending(Tail(sorted), x)
    ELSE <<x>> \o sorted

RECURSIVE SortAscending(_)
SortAscending(arr) ==
    IF arr = <<>> THEN <<>>
    ELSE InsertAscending(SortAscending(SubSeq(arr, 1, Len(arr) - 1)), arr[Len(arr)])

median(arr) ==
    IF Len(arr) = 0 THEN 0
    ELSE LET sorted == SortAscending(arr)
             mid    == Len(sorted) \div 2
         IN  IF Len(sorted) % 2 = 1 THEN sorted[mid + 1]
             ELSE MathRound(Q(sorted[mid] + sorted[mid + 1], 2))

\* [...parsed].sort((a, b) => b.views - a.views), a stable sort
RECURSIVE InsertByViews(_, _)
InsertByViews(sorted, v) ==
    IF sorted = <<>> THEN <<v>>
    ELSE IF Head(sorted).views >= v.views
         THEN <<Head(sorted)>> \o InsertByViews(Tail(sorted), v)
         ELSE <<v>> \o sorted

RECURSIVE SortByViews(_)
SortByViews(arr) ==
    IF arr = <<>> THEN <<>>
    ELSE InsertByViews(SortByViews(SubSeq(arr, 1, Len(arr) - 1)), arr[Len(arr)])

\* of the summary: the video, its counts and its rounded engagement
videoSummary(v) ==
    [videoId |-> v.videoId, views |-> v.views, likes |-> v.likes,
     comments |-> v.comments, engagementRate |-> r2(v.engagement),
     publishedAt |-> v.publishedAt]

emptyAnalytics ==
    [videoCount |-> 0, engagementRate |-> 0, avgViews |-> 0, avgLikes |-> 0,
     avgComments |-> 0, likeToViewRatio |-> 0, commentToViewRatio |-> 0,
     viewToSubRatio |-> 0, postsPerWeek |-> 0, postingConsistency |-> 0,
     topPerformingVideo |-> Null, worstPerformingVideo |-> Null,
     viewDistribution |-> Null]

HoursPerDay == 24

\* gaps between consecutive dates, in days; the dates are in hours
Gaps(dates) == [i \in 1..(Len(dates) - 1) |-> Q(dates[i + 1] - dates[i], HoursPerDay)]

\* Math.max(0, Math.round((1 - Math.min(stdDev / divisor, 1)) * 100)) from
\* the variance (stdDev is its square root) and a divisor > 0.  The value is
\* the least c with (1 - stdDev / divisor) * 100 < c + 0.5, that is with
\* 200 * stdDev / divisor > 199 - 2 * c; c = 0 when stdDev >= divisor.
ConsistencyOf(variance, divisor) ==
    LET ratioSq == QDiv(variance, QMul(divisor, divisor))
        Fits(c) == c = 100 \/ 40000 * ratioSq[1] > (199 - 2 * c) * (199 - 2 * c) * ratioSq[2]
    IN  CHOOSE c \in 0..100 : Fits(c) /\ \A b \in 0..(c - 1) : ~Fits(b)

\* Mutant: two videos get no partial credit.
PostingConsistency_NoPartialCredit(gaps) ==
    IF Len(gaps) >= 2
    THEN LET avgGap   == QDiv(QSum(gaps), QInt(Len(gaps)))
             squares  == [i \in 1..Len(gaps) |->
                            QMul(QSub(gaps[i], avgGap), QSub(gaps[i], avgGap))]
             variance == QDiv(QSum(squares), QInt(Len(gaps)))
         IN  ConsistencyOf(variance, QMax(avgGap, QInt(1)))
    ELSE 100

\* let postingConsistency = 100; if (gaps.length >= 2) ... else if (gaps.length === 1) ...
PostingConsistency(gaps) ==
    IF Len(gaps) >= 2
    THEN LET avgGap   == QDiv(QSum(gaps), QInt(Len(gaps)))
             squares  == [i \in 1..Len(gaps) |->
                            QMul(QSub(gaps[i], avgGap), QSub(gaps[i], avgGap))]
             variance == QDiv(QSum(squares), QInt(Len(gaps)))
         IN  ConsistencyOf(variance, QMax(avgGap, QInt(1)))
    ELSE IF Len(gaps) = 1 THEN 60
    ELSE 100

\* Rates are in hundredths (r2); dates in hours.
\* The two values of a JS number that are no rational, written as integers
\* beyond every number the functions compute.
NaN == 0 - 2^30
Infinity == 2^30

\* Number.isFinite
isFinite(n) == n \notin {NaN, Infinity, 0 - Infinity}

\* Mutant: the ratio without its guard, a division by zero for a channel
\* without subscribers.
ViewToSubRatio_Unguarded(avgViews, subscriberCount) ==
    IF subscriberCount = 0 THEN (IF avgViews = 0 THEN NaN ELSE Infinity)
    ELSE r2(Q(avgViews * 100, subscriberCount))

\* lines 107 and 152: r2(subscriberCount > 0 ? (avgViews / subscriberCount) * 100 : 0)
ViewToSubRatio(avgViews, subscriberCount) ==
    IF subscriberCount > 0 THEN r2(Q(avgViews * 100, subscriberCount)) ELSE 0

analyzeVideos(parsed, subscriberCount) ==
    IF Len(parsed) = 0 THEN emptyAnalytics
    ELSE
    LET totalViews    == SumKey(parsed, "views")
        totalLikes    == SumKey(parsed, "likes")
        totalComments == SumKey(parsed, "comments")
        count         == Len(parsed)
        avgViews      == MathRound(Q(totalViews, count))
        avgLikes      == MathRound(Q(totalLikes, count))
        avgComments   == MathRound(Q(totalComments, count))
        engagementRate ==
            IF totalViews > 0 THEN Q((totalLikes + totalComments) * 100, totalViews)
            ELSE QInt(0)
        likeToViewRatio ==
            IF totalViews > 0 THEN Q(totalLikes * 100, totalViews) ELSE QInt(0)
        commentToViewRatio ==
            IF totalViews > 0 THEN Q(totalComments * 100, totalViews) ELSE QInt(0)
        dates    == SortAscending([i \in 1..count |-> parsed[i].publishedAt])
        oldest   == dates[1]
        newest   == dates[Len(dates)]
        spanDays == QMax(QInt(1), Q(newest - oldest, HoursPerDay))
        postsPerWeek == QMul(QDiv(QInt(count), spanDays), QInt(7))
        byViews  == SortByViews(parsed)
        medianViews == median([i \in 1..count |-> parsed[i].views])
    IN  [videoCount |-> count,
         dateRange |-> [oldest |-> oldest, newest |-> newest,
                        spanDays |-> MathRound(spanDays)],
         engagementRate |-> r2(engagementRate),
         avgViews |-> avgViews,
         avgLikes |-> avgLikes,
         avgComments |-> avgComments,
         likeToViewRatio |-> r2(likeToViewRatio),
         commentToViewRatio |-> r2(commentToViewRatio),
         viewToSubRatio |-> ViewToSubRatio(avgViews, subscriberCount),
         postsPerWeek |-> r2(postsPerWeek),
         postingConsistency |-> PostingConsistency(Gaps(dates)),
         topPerformingVideo |-> videoSummary(byViews[1]),
         worstPerformingVideo |->
            IF Len(byViews) > 1 THEN videoSummary(byViews[Len(byViews)]) ELSE Null,
         viewDistribution |->
            [median |-> medianViews, mean |-> avgViews,
             max |-> byViews[1].views, min |-> byViews[Len(byViews)].views,
             skewRatio |-> IF medianViews > 0 THEN r2(Q(avgViews, medianViews)) ELSE 0]]

-----------------------------------------------------------------------------
(* Calls of analyzeVideos                                                  *)

\* The longest video list.
MaxAnalyzeVideos == 4

\* publish times: hours after 2025-01-01T00:00:00Z
DateOffsets == {0, 12, 24, 48, 96, 168}

\* views, likes and comments of the videos tried
StatKinds == << <<0, 0, 0>>, <<100, 5, 1>>, <<1000, 80, 20>>, <<333, 7, 0>> >>

SubscriberSamples == {0, 1, 500, 50000}

\* a ParsedVideo with the fields analyzeVideos reads
AnalyzedVideo(id, offset, kind) ==
    LET stat == StatKinds[kind]
    IN  [videoId |-> id, publishedAt |-> DateTable["2025-01-01T00:00:00Z"] + offset,
         views |-> stat[1], likes |-> stat[2], comments |-> stat[3],
         engagement |-> IF stat[1] > 0 THEN Q((stat[2] + stat[3]) * 100, stat[1])
                                       ELSE QInt(0)]

\* newest first, as parseVideos returns them: every choice of publish times
\* with the kinds in turn, and every choice of kinds one day apart
DatedLists ==
    UNION {{[i \in 1..n |-> AnalyzedVideo(i, offsets[i], ((i - 1) % Len(StatKinds)) + 1)]
              : offsets \in {o \in [1..n -> DateOffsets] :
                               \A i \in 1..(n - 1) : o[i] >= o[i + 1]}}
           : n \in 0..MaxAnalyzeVideos}

CountedLists ==
    UNION {{[i \in 1..n |-> AnalyzedVideo(i, HoursPerDay * (n - i), kinds[i])]
              : kinds \in [1..n -> 1..Len(StatKinds)]}
           : n \in 0..MaxAnalyzeVideos}

InitAnalyze ==
    /\ StateIdle
    /\ done = FALSE
    /\ ret = NoResult
    /\ fn = "analyzeVideos"
    /\ \/ args \in [parsed : DatedLists, subscriberCount : {0, 50000}]
       \/ args \in [parsed : CountedLists, subscriberCount : SubscriberSamples]

AnalyzeVideos ==
    /\ ~done
    /\ fn = "analyzeVideos"
    /\ ret' = analyzeVideos(args.parsed, args.subscriberCount)
    /\ done' = TRUE
    /\ UNCHANGED <<fn, args>>
    /\ UNCHANGED stateVars

NextAnalyze == AnalyzeVideos

SpecAnalyze == InitAnalyze /\ [][NextAnalyze]_vars

AnalyzeDone == done /\ fn = "analyzeVideos"

\* the gaps of the call's videos, their mean and their variance
GapsOfCall ==
    Gaps(SortAscending([i \in 1..Len(args.parsed) |-> args.parsed[i].publishedAt]))
MeanGap == QDiv(QSum(GapsOfCall), QInt(Len(GapsOfCall)))
GapVariance ==
    QDiv(QSum([i \in 1..Len(GapsOfCall) |->
                 QMul(QSub(GapsOfCall[i], MeanGap), QSub(GapsOfCall[i], MeanGap))]),
         QInt(Len(GapsOfCall)))

\* C19: with at least 3 videos, postingConsistency =
\* max(0, round(100 * (1 - min(stddev / mean, 1)))) for the mean and the
\* population standard deviation of the gaps in days, also when the mean
\* gap is below one day (gaps of 0 and 1 day give 0).
C19_ConsistencyByMeanGap ==
    (AnalyzeDone /\ Len(args.parsed) >= 3 /\ QLt(QInt(0), MeanGap)) =>
        ret.postingConsistency = ConsistencyOf(GapVariance, MeanGap)

\* What the code computes: the standard deviation is divided by
\* Math.max(mean, 1), so the formula of C19 holds when the mean gap is at
\* least one day, and below one day the deviation is taken as it is.
C19_ConsistencyByMeanAtLeastOne ==
    (AnalyzeDone /\ Len(args.parsed) >= 3) =>
        ret.postingConsistency =
            IF QLe(QInt(1), MeanGap) THEN ConsistencyOf(GapVariance, MeanGap)
            ELSE ConsistencyOf(GapVariance, QInt(1))

\* gaps of 0 and 1 day are given 50
C19_HalfDayMeanGivesFifty ==
    /\ AnalyzeDone
    /\ GapsOfCall = <<QInt(0), QInt(1)>>
    /\ ret.postingConsistency = 50

IsRate(x) == x \in Nat

\* C20: with non-negative counts and subscriber count, engagementRate,
\* likeToViewRatio, commentToViewRatio, viewToSubRatio and postsPerWeek are
\* non-negative and finite, and postingConsistency is an integer in 0..100:
\* 0 for an empty list, 100 for a single video, 60 for two videos.
C20_RatesAndConsistencyInRange ==
    AnalyzeDone =>
        /\ IsRate(ret.engagementRate)
        /\ IsRate(ret.likeToViewRatio)
        /\ IsRate(ret.commentToViewRatio)
        /\ IsRate(ret.viewToSubRatio)
        /\ IsRate(ret.postsPerWeek)
        /\ ret.postingConsistency \in 0..100
        /\ Len(args.parsed) = 0 => ret.postingConsistency = 0
        /\ Len(args.parsed) = 1 => ret.postingConsistency = 100
        /\ Len(args.parsed) = 2 => ret.postingConsistency = 60

\* two videos without views, for a channel without subscribers
C20_Witness ==
    /\ AnalyzeDone
    /\ Len(args.parsed) = 2
    /\ args.subscriberCount = 0
    /\ \A i \in 1..2 : args.parsed[i].views = 0
    /\ ret.engagementRate = 0
    /\ ret.viewToSubRatio = 0
    /\ ret.postingConsistency = 60

\* four videos with irregular gaps: a consistency strictly between 0 and 100
C20_WitnessComputed ==
    /\ AnalyzeDone
    /\ Len(args.parsed) = 4
    /\ ret.postingConsistency \in 1..99
    /\ ret.engagementRate > 0
    /\ ret.postsPerWeek > 0

-----------------------------------------------------------------------------
(* Sequences of calls of the six components                                *)

\* The most calls in a run.
MaxCalls == 3

\* two argument lists for each component
SampleRaw(i, text) ==
    [t |-> "obj", id |-> i, snippet |-> [t |-> "obj", publishedAt |-> DateStr(text)],
     statistics |-> [t |-> "obj", viewCount |-> StrNum(1000), likeCount |-> StrNum(0),
                     commentCount |-> StrLead(12)],
     contentDetails |-> Undefined]

SampleSponsorVideos(kinds) ==
    [i \in 1..Len(kinds) |-> [videoId |-> i, description |-> DescriptionNo(kinds[i])]]

CallArguments ==
    [f \in {"parseVideos", "analyzeVideos", "calculateCreatorFusionScore",
            "detectSponsorships", "analyzeAuthenticity", "generateRateCard"} |->
       CASE f = "parseVideos" ->
              {[videos |-> <<SampleRaw(1, "2025-01-01T00:00:00Z"),
                             SampleRaw(2, "2025-01-15T00:00:00Z")>>],
               [videos |-> <<SampleRaw(1, "not a date")>>]}
         [] f = "analyzeVideos" ->
              {[parsed |-> <<AnalyzedVideo(1, 48, 2), AnalyzedVideo(2, 24, 3),
                             AnalyzedVideo(3, 0, 4)>>, subscriberCount |-> 500],
               [parsed |-> <<>>, subscriberCount |-> 0]}
         [] f = "calculateCreatorFusionScore" ->
              {[analytics |-> [engagementRate |-> 425, postingConsistency |-> 87,
                               postsPerWeek |-> 150, viewToSubRatio |-> 2250],
                channelStats |-> [subscriberCount |-> StrNum(50000)]],
               [analytics |-> [engagementRate |-> 0, postingConsistency |-> 0,
                               postsPerWeek |-> 0, viewToSubRatio |-> 0],
                channelStats |-> [subscriberCount |-> Undefined]]}
         [] f = "detectSponsorships" ->
              {[videos |-> SampleSponsorVideos(<<2>>)],
               [videos |-> SampleSponsorVideos(<<8, 1, 4>>)]}
         [] f = "analyzeAuthenticity" ->
              {[videos |-> [i \in 1..5 |-> ParsedVideo(100 * i, 4 * i, 30, FALSE, FALSE)],
                channelStats |-> [subscriberCount |-> StrNum(2000),
                                  viewCount |-> StrNum(5000)]],
               [videos |-> <<ParsedVideo(100, 40, 0, FALSE, FALSE)>>,
                channelStats |-> [subscriberCount |-> Undefined, viewCount |-> Undefined]]}
         [] f = "generateRateCard" ->
              {[avgViews |-> 12345, tier |-> "Micro", creatorFusionScore |-> 72,
                contentCategories |-> << <<"M", "u", "s", "i", "c">> >>,
                sponsorship |-> Null],
               [avgViews |-> 100000, tier |-> "Macro", creatorFusionScore |-> 80,
                contentCategories |-> <<>>,
                sponsorship |-> [t |-> "obj", totalDetected |-> 5]]}]

InitCalls ==
    /\ StateIdle
    /\ fn = "none"
    /\ args = [t |-> "input"]
    /\ ret = NoResult
    /\ done = TRUE

\* a call returns: the caller has its result, and the history one more entry
Returns(f, a, r) ==
    /\ Cardinality(seen) < MaxCalls
    /\ fn' = f
    /\ args' = a
    /\ ret' = r
    /\ done' = TRUE
    /\ seen' = seen \cup {[no |-> Cardinality(seen) + 1, fn |-> f, args |-> a, ret |-> r]}
    /\ UNCHANGED <<batchVars, clientVars>>

CallParseVideos(a) ==
    /\ Returns("parseVideos", a, parseVideos(a.videos))
    /\ UNCHANGED lastIndex

CallAnalyzeVideos(a) ==
    /\ Returns("analyzeVideos", a, analyzeVideos(a.parsed, a.subscriberCount))
    /\ UNCHANGED lastIndex

CallCalculateScore(a) ==
    /\ Returns("calculateCreatorFusionScore", a,
               calculateCreatorFusionScore(a.analytics, a.channelStats))
    /\ UNCHANGED lastIndex

CallDetectSponsorships(a) ==
    /\ Returns("detectSponsorships", a, detectSponsorships(a.videos))
    /\ lastIndex' = DetectRun(a.videos, lastIndex).lastIndex

CallAnalyzeAuthenticity(a) ==
    /\ Returns("analyzeAuthenticity", a, analyzeAuthenticity(a.videos, a.channelStats))
    /\ UNCHANGED lastIndex

CallGenerateRateCard(a) ==
    /\ Returns("generateRateCard", a, generateRateCard(a))
    /\ UNCHANGED lastIndex

NextCalls ==
    \/ \E a \in CallArguments["parseVideos"] : CallParseVideos(a)
    \/ \E a \in CallArguments["analyzeVideos"] : CallAnalyzeVideos(a)
    \/ \E a \in CallArguments["calculateCreatorFusionScore"] : CallCalculateScore(a)
    \/ \E a \in CallArguments["detectSponsorships"] : CallDetectSponsorships(a)
    \/ \E a \in CallArguments["analyzeAuthenticity"] : CallAnalyzeAuthenticity(a)
    \/ \E a \in CallArguments["generateRateCard"] : CallGenerateRateCard(a)

SpecCalls == InitCalls /\ [][NextCalls]_vars

\* C15: two calls of a component with equal inputs return equal outputs,
\* whatever was called in between and in whatever order, and the promo-code
\* pattern carries no match position from one call to the next: its
\* lastIndex is 0 between calls.
C15_EqualInputsEqualOutputs ==
    /\ \A a \in seen : \A b \in seen :
          (a.fn = b.fn /\ a.args = b.args) => a.ret = b.ret
    /\ lastIndex = 0

\* detectSponsorships found the code TECHGUY20 in the first and again in the
\* third call, with a call on other descriptions in between
C15_Witness ==
    \E a \in seen : \E b \in seen : \E c \in seen :
        /\ a.no = 1 /\ b.no = 2 /\ c.no = 3
        /\ a.fn = "detectSponsorships" /\ b.fn = "detectSponsorships"
        /\ c.fn = "detectSponsorships"
        /\ a.args = c.args /\ a.args # b.args
        /\ a.ret = c.ret
        /\ Len(a.ret.promoCodes) = 1
        /\ Len(b.ret.promoCodes) = 1
-----------------------------------------------------------------------------
(* Claims on the view distribution                                         *)

QEq(x, y) == x[1] * y[2] = y[1] * x[2]

\* the view counts of the call's videos
ViewsOfCall == [i \in 1..Len(args.parsed) |-> args.parsed[i].views]

\* The median of a non-empty list of integers, as an exact number: the
\* middle value of the sorted list, or the average of the two middle values.
StandardMedian(arr) ==
    IF Len(arr) % 2 = 1 THEN QInt(SortAscending(arr)[(Len(arr) \div 2) + 1])
    ELSE Q(SortAscending(arr)[Len(arr) \div 2] + SortAscending(arr)[(Len(arr) \div 2) + 1], 2)

\* mean / median in hundredths, 0 for a median of 0
SkewOf(mean, medianViews) ==
    IF QLt(QInt(0), medianViews) THEN r2(QDiv(QInt(mean), medianViews)) ELSE 0

\* C21: viewDistribution.median is the standard median of the view counts,
\* the middle value for an odd number of videos and the exact average of
\* the two middle values for an even number, and skewRatio is mean / median
\* from that median (0 when the median is 0).
C21_StandardMedianAndSkew ==
    (AnalyzeDone /\ Len(args.parsed) > 0) =>
        /\ QEq(QInt(ret.viewDistribution.median), StandardMedian(ViewsOfCall))
        /\ ret.viewDistribution.skewRatio =
              SkewOf(ret.viewDistribution.mean, StandardMedian(ViewsOfCall))

\* What the code computes: for an even number of videos the average of the
\* two middle values is rounded to an integer, halves upwards, and the skew
\* ratio is taken from the rounded median.
C21_MedianRoundedHalfUp ==
    (AnalyzeDone /\ Len(args.parsed) > 0) =>
        /\ ret.viewDistribution.median = MathRound(StandardMedian(ViewsOfCall))
        /\ ret.viewDistribution.skewRatio =
              SkewOf(ret.viewDistribution.mean, QInt(ret.viewDistribution.median))

\* two videos with 100 and 333 views: the median reported is 217, not 216.5
C21_HalfReportedRoundedUp ==
    /\ AnalyzeDone
    /\ Len(args.parsed) = 2
    /\ {ViewsOfCall[1], ViewsOfCall[2]} = {100, 333}
    /\ ret.viewDistribution.median = 217

-----------------------------------------------------------------------------
(* Claims on the sub-scores of the composite score                         *)

ScoreDone == done /\ fn = "calculateCreatorFusionScore"

\* The piecewise function of C22, p in hundredths of a post per week; low
\* is the value on 0.25 <= p < 1.
FrequencyPieces(p, low) ==
    IF p = 0 THEN QInt(0)
    ELSE IF p < 25 THEN QInt(10)
    ELSE IF p < 100 THEN low
    ELSE IF p < 200 THEN QAdd(QInt(50), Q(40 * (p - 100), 100))
    ELSE IF p <= 500 THEN QAdd(QInt(90), QMin(QInt(10), Q(3 * (p - 200), 100)))
    ELSE QMax(QInt(70), QSub(QInt(100), Q(5 * (p - 500), 100)))

\* the line from 0 at p = 0.25 to 50 at p = 1
LinearFromQuarter(p) == Q(50 * (p - 25), 75)

\* C22: the frequency sub-score is 0 for p = 0; 10 for 0 < p < 0.25; linear
\* from 0 at p = 0.25 to 50 at p = 1; linear from 50 at p = 1 to 90 at
\* p = 2; 90 + min(10, 3 * (p - 2)) for 2 <= p <= 5; and
\* max(70, 100 - 5 * (p - 5)) for p > 5.
C22_FrequencyPiecewise ==
    ScoreDone =>
        ret.breakdown.frequency =
            MathRound(FrequencyPieces(args.analytics.postsPerWeek,
                                      LinearFromQuarter(args.analytics.postsPerWeek)))

\* What the code computes: Math.min(50, ppw * 200) is 50 from p = 0.25 on,
\* so the sub-score is 50 on all of 0.25 <= p < 1; the other pieces are
\* those of C22.
C22_FrequencyFlatBelowOne ==
    ScoreDone =>
        ret.breakdown.frequency =
            MathRound(FrequencyPieces(args.analytics.postsPerWeek, QInt(50)))

\* one post every two weeks scores 50, not 17
C22_HalfPostScoresFifty ==
    /\ ScoreDone
    /\ args.analytics.postsPerWeek = 50
    /\ ret.breakdown.frequency = 50

\* the tier's benchmarks in hundredths of a percent point
GoodOf(tierName) == 10 * ENGAGEMENT_BENCHMARKS[tierName].good
GreatOf(tierName) == 10 * ENGAGEMENT_BENCHMARKS[tierName].great

\* engagement rates compared with the call's: the samples, and the
\* benchmarks of the call's tier with the rates next to them
ErProbes(tierName) ==
    ErSamples \cup {GoodOf(tierName) - 1, GoodOf(tierName), GoodOf(tierName) + 1,
                    GreatOf(tierName) - 1, GreatOf(tierName), GreatOf(tierName) + 1}

\* the call's result had the engagement rate been er, all else equal
ScoreWithRate(er) ==
    calculateCreatorFusionScore([args.analytics EXCEPT !.engagementRate = er],
                                args.channelStats)

NoLowerThan(higher, lower) ==
    /\ higher.score >= lower.score
    /\ higher.breakdown.engagement >= lower.breakdown.engagement

\* the engagement sub-score of a call at rate er for a tier: 0 at 0, up to 60
\* at 'good', up to 90 at 'great', and at most 100 above
EngagementShape(er, good, great, sub) ==
    /\ er = 0 => sub = 0
    /\ er = good => sub = 60
    /\ er = great => sub = 90
    /\ er < good => sub <= 60
    /\ (er >= good /\ er < great) => (sub >= 60 /\ sub <= 90)
    /\ er >= great => (sub >= 90 /\ sub <= 100)

\* C23: with subscriber count and the other analytics fields fixed, the
\* composite score never decreases when the engagement rate rises; the
\* engagement sub-score is 0 at rate 0, 60 at the tier's 'good' benchmark,
\* 90 at 'great', at most 100 above, and never drops at a benchmark.
C23_MonotoneInEngagement ==
    ScoreDone =>
        /\ \A er \in ErProbes(ret.tier) :
              /\ er >= args.analytics.engagementRate => NoLowerThan(ScoreWithRate(er), ret)
              /\ QLe(EngScore(Min(er, args.analytics.engagementRate),
                              ENGAGEMENT_BENCHMARKS[ret.tier]),
                     EngScore(Max(er, args.analytics.engagementRate),
                              ENGAGEMENT_BENCHMARKS[ret.tier]))
        /\ EngagementShape(args.analytics.engagementRate, GoodOf(ret.tier),
                           GreatOf(ret.tier), ret.breakdown.engagement)

\* a Mid-Tier channel exactly at its 'good' benchmark of 3%: sub-score 60
C23_Witness ==
    /\ ScoreDone
    /\ ret.tier = "Mid-Tier"
    /\ args.analytics.engagementRate = GoodOf("Mid-Tier")
    /\ ret.breakdown.engagement = 60
    /\ ScoreWithRate(GoodOf("Mid-Tier") - 1).score <= ret.score

\* a Nano channel exactly at its 'great' benchmark of 12%: sub-score 90
C23_WitnessGreat ==
    /\ ScoreDone
    /\ ret.tier = "Nano"
    /\ args.analytics.engagementRate = GreatOf("Nano")
    /\ ret.breakdown.engagement = 90

-----------------------------------------------------------------------------
(* Claims on the disclosure rate                                           *)

\* the videos whose description carries at least one disclosure hashtag
DisclosedVideos(videos) ==
    {i \in 1..Len(videos) : ScanOf(DescriptionOf(videos[i])).disclosures > 0}

\* the disclosure hashtags found, counted once per hashtag and video
HashtagsFound(videos) ==
    SumSeq([i \in 1..Len(videos) |-> ScanOf(DescriptionOf(videos[i])).disclosures])

\* C24: disclosureRate = round(100 * (videos carrying at least one
\* disclosure hashtag) / totalDetected) when totalDetected > 0 and 100
\* otherwise, so it lies in 0..100, also when one video carries several
\* disclosure hashtags.
C24_DisclosureRatePerVideo ==
    SponsorDone =>
        /\ ret.disclosureRate \in 0..100
        /\ IF ret.totalDetected > 0
           THEN IsRoundedPercent(ret.disclosureRate,
                                 Cardinality(DisclosedVideos(args.videos)), ret.totalDetected)
           ELSE ret.disclosureRate = 100

\* What the code computes: disclosureCount is incremented for every
\* hashtag found, so the rate is taken from the number of hashtags.
C24_DisclosureRatePerHashtag ==
    SponsorDone =>
        IF ret.totalDetected > 0
        THEN IsRoundedPercent(ret.disclosureRate, HashtagsFound(args.videos), ret.totalDetected)
        ELSE ret.disclosureRate = 100

\* one video with '#ad' and '#sponsored': a disclosure rate of 200
C24_TwoHashtagsGiveTwoHundred ==
    /\ SponsorDone
    /\ Len(args.videos) = 1
    /\ ScanOf(DescriptionOf(args.videos[1])).disclosures = 2
    /\ ret.totalDetected = 1
    /\ ret.disclosureRate = 200

-----------------------------------------------------------------------------
(* Calls of the authenticity detector on long lists, and the share of      *)
(* videos with likes but no comments                                       *)

\* The longest list: the 44 videos of which 13 have likes and no comments.
MaxShareVideos == 44

\* 100 views and 55 likes each; the first zeroComment videos have no
\* comments, the others 30
ShareList(zeroComment, eligible) ==
    [i \in 1..eligible |->
        ParsedVideo(100, 55, IF i <= zeroComment THEN 0 ELSE 30, FALSE, FALSE)]

InitAuthShare ==
    /\ StateIdle
    /\ done = FALSE
    /\ ret = NoResult
    /\ fn = "analyzeAuthenticity"
    /\ \E eligible \in 3..MaxShareVideos : \E zeroComment \in 0..eligible :
          args = [videos |-> ShareList(zeroComment, eligible),
                  channelStats |-> [subscriberCount |-> StrNum(2000),
                                    viewCount |-> StrNum(20000)]]

SpecAuthShare == InitAuthShare /\ [][NextAuth]_vars

AuthDone == done /\ fn = "analyzeAuthenticity"

ZeroCommentCount(videos) ==
    Len(SelectSeq(EligibleVideos(videos), IsZeroCommentHighLikes))

ZeroCommentFlagged(report) ==
    \E i \in 1..Len(report.flags) :
        report.flags[i] = Flag("medium", "Many videos have likes but zero comments")

\* C25: the zero-comment flag (medium, 15 points) is raised if and only if
\* the eligible videos with comments enabled, no comments and more than 50
\* likes are at least 30% of the eligible videos, 100 * count >= 30 *
\* eligible; 13 of 44 raise no flag.
C25_FlagIffThirtyPercent ==
    (AuthDone /\ IsComputed(ret)) =>
        (ZeroCommentFlagged(ret)
            <=> 100 * ZeroCommentCount(args.videos) >= 30 * ret.videosAnalyzed)

\* What the code computes: the share is rounded to a whole percentage
\* before it is compared, so the flag is raised from 29.5% on
\* (200 * count >= 59 * eligible).
C25_FlagIffRoundedThirty ==
    (AuthDone /\ IsComputed(ret)) =>
        (ZeroCommentFlagged(ret)
            <=> 200 * ZeroCommentCount(args.videos) >= 59 * ret.videosAnalyzed)

\* 13 of 44 videos (29.5%) are flagged
C25_ThirteenOfFortyFourFlagged ==
    /\ AuthDone
    /\ ret.videosAnalyzed = 44
    /\ ZeroCommentCount(args.videos) = 13
    /\ ZeroCommentFlagged(ret)

-----------------------------------------------------------------------------
(* generatePartnershipInsights (analytics.js)                              *)

cpmTable ==
    [n \in {"Nano", "Micro", "Mid-Tier", "Macro", "Mega"} |->
        CASE n = "Nano"     -> [low |-> 5,  high |-> 15]
          [] n = "Micro"    -> [low |-> 8,  high |-> 20]
          [] n = "Mid-Tier" -> [low |-> 12, high |-> 25]
          [] n = "Macro"    -> [low |-> 15, high |-> 30]
          [] n = "Mega"     -> [low |-> 20, high |-> 50]]

\* the elements of xs for which the test of the same index holds
RECURSIVE PushedWhere(_, _)
PushedWhere(tests, xs) ==
    IF xs = <<>> THEN <<>>
    ELSE (IF Head(tests) THEN <<Head(xs)>> ELSE <<>>) \o PushedWhere(Tail(tests), Tail(xs))

\* analytics.viewDistribution?.skewRatio, in hundredths
SkewRatioOf(analytics) ==
    IF analytics.viewDistribution = Null THEN Undefined
    ELSE Num(analytics.viewDistribution.skewRatio)

\* a comparison with undefined is false
SkewAbove(skew, bound) == skew.t = "num" /\ skew.v > bound
SkewAtMost(skew, bound) == skew.t = "num" /\ skew.v <= bound

StrengthsOf(analytics, b, skew) ==
    PushedWhere(<<b.engagement >= 80,
                  b.consistency >= 80,
                  b.frequency >= 80,
                  analytics.viewToSubRatio >= 3000,
                  SkewAtMost(skew, 150) /\ SkewAbove(skew, 0)>>,
                <<"Exceptional engagement rate for tier",
                  "Very consistent posting schedule",
                  "Strong posting cadence",
                  "High subscriber-to-view conversion",
                  "Consistent video performance (low variance)">>)

\* The last two flags are cut before their dash.
FlagsOf(analytics, b, skew) ==
    PushedWhere(<<b.engagement < 40,
                  analytics.postsPerWeek < 50,
                  analytics.postingConsistency < 30,
                  SkewAbove(skew, 300),
                  analytics.viewToSubRatio < 1000>>,
                <<"Below-average engagement for tier",
                  "Infrequent posting (<1 per 2 weeks)",
                  "Irregular posting schedule",
                  "High view variance",
                  "Low view-to-sub ratio">>)

\* t.replace('https://en.wikipedia.org/wiki/', '').replace(/_/g, ' ')
WikiPrefix ==
    <<"h", "t", "t", "p", "s", ":", "/", "/", "e", "n", ".", "w", "i", "k", "i", "p", "e", "d",
      "i", "a", ".", "o", "r", "g", "/", "w", "i", "k", "i", "/">>

\* str.replace(pattern, ''): the first occurrence of a string pattern is cut
RemoveFirst(str, pattern) ==
    IF \E p \in 0..(Len(str) - Len(pattern)) : LitAt(str, p, pattern)
    THEN SubSeq(str, 1, SetMin({p \in 0..(Len(str) - Len(pattern)) : LitAt(str, p, pattern)}))
         \o SubSeq(str, SetMin({p \in 0..(Len(str) - Len(pattern)) : LitAt(str, p, pattern)})
                        + Len(pattern) + 1, Len(str))
    ELSE str

UnderscoresToSpaces(str) == [i \in 1..Len(str) |-> IF str[i] = "_" THEN " " ELSE str[i]]

TopicName(t) == UnderscoresToSpaces(RemoveFirst(t, WikiPrefix))

\* channelData.topicDetails?.topicCategories ?? []
TopicCategories(channelData) ==
    IF channelData.topicDetails.t = "undefined" THEN <<>>
    ELSE IF channelData.topicDetails.topicCategories.t = "undefined" THEN <<>>
    ELSE channelData.topicDetails.topicCategories.items

\* channelData.statistics?.subscriberCount
SubscriberCountOf(channelData) ==
    IF channelData.statistics.t = "undefined" THEN Undefined
    ELSE channelData.statistics.subscriberCount

\* Mutant: the number of flags is not looked at.
RecommendedForBrands_AnyFlags(score, flags) == score >= 50

\* creatorFusionScore.score >= 50 && flags.length <= 1
RecommendedForBrands(score, flags) == score >= 50 /\ Len(flags) <= 1

Insights(avgViews, cpm, strengths, flags, topics, score) ==
    [estimatedSponsoredPostValue |->
        [low  |-> MathRound(Q(avgViews * cpm.low, 1000)),
         high |-> MathRound(Q(avgViews * cpm.high, 1000))],
     strengths |-> strengths,
     flags |-> flags,
     contentCategories |-> [i \in 1..Len(topics) |-> TopicName(topics[i])],
     recommendedForBrands |-> RecommendedForBrands(score, flags)]

\* Rates are in hundredths; the breakdown carries its scores as
\* calculateCreatorFusionScore of this model returns them.
generatePartnershipInsights(analytics, channelData, creatorFusionScore) ==
    Insights(analytics.avgViews,
             cpmTable[classifyAudienceTier(safeInt(SubscriberCountOf(channelData))).name],
             StrengthsOf(analytics, creatorFusionScore.breakdown, SkewRatioOf(analytics)),
             FlagsOf(analytics, creatorFusionScore.breakdown, SkewRatioOf(analytics)),
             TopicCategories(channelData),
             creatorFusionScore.score)

-----------------------------------------------------------------------------
(* Calls of generatePartnershipInsights                                     *)

\* The most topic categories of a channel.
MaxTopics == 2

TopicSamples ==
    << WikiPrefix \o <<"V", "i", "d", "e", "o", "_", "g", "a", "m", "e", "_", "c", "u", "l", "t", "u", "r", "e">>,
       WikiPrefix \o <<"M", "u", "s", "i", "c">>,
       <<"T", "e", "c", "h", "_", "n", "e", "w", "s">> >>

TopicLists ==
    UNION {[1..n -> {TopicSamples[k] : k \in 1..Len(TopicSamples)}] : n \in 0..MaxTopics}

ChannelDataSamples ==
    {[statistics |-> Undefined, topicDetails |-> Undefined],
     [statistics |-> [t |-> "obj", subscriberCount |-> StrNum(25000)],
      topicDetails |-> [t |-> "obj", topicCategories |-> Undefined]]}
    \cup {[statistics |-> [t |-> "obj", subscriberCount |-> StrNum(2000000)],
           topicDetails |-> [t |-> "obj",
                             topicCategories |-> [t |-> "arr", items |-> topics]]]
          : topics \in TopicLists}

\* viewDistribution is null in emptyAnalytics; skew ratios in hundredths
ViewDistributionSamples == {Null} \cup {[skewRatio |-> k] : k \in {0, 150, 300, 301}}

InsightAnalyticsSamples ==
    [avgViews : {0, 1500}, viewToSubRatio : {0, 999, 1000, 3000},
     postsPerWeek : {0, 49, 50}, postingConsistency : {0, 29, 30, 100},
     viewDistribution : ViewDistributionSamples]

InsightScoreSamples ==
    [score : {0, 49, 50, 100},
     breakdown : [engagement : {0, 39, 40, 80}, consistency : {29, 80}, frequency : {80}]]

InitInsights ==
    /\ StateIdle
    /\ done = FALSE
    /\ ret = NoResult
    /\ fn = "generatePartnershipInsights"
    /\ \/ args \in [analytics : InsightAnalyticsSamples,
                     channelData : {[statistics |-> Undefined, topicDetails |-> Undefined]},
                     creatorFusionScore : InsightScoreSamples]
       \/ args \in [analytics : {a \in InsightAnalyticsSamples : a.avgViews = 1500 /\ a.viewDistribution # Null /\ a.postingConsistency = 100 /\ a.postsPerWeek = 50},
                     channelData : ChannelDataSamples,
                     creatorFusionScore : {c \in InsightScoreSamples : c.breakdown.consistency = 80}]

GeneratePartnershipInsights ==
    /\ ~done
    /\ fn = "generatePartnershipInsights"
    /\ ret' = generatePartnershipInsights(args.analytics, args.channelData,
                                          args.creatorFusionScore)
    /\ done' = TRUE
    /\ UNCHANGED <<fn, args>>
    /\ UNCHANGED stateVars

NextInsights == GeneratePartnershipInsights

SpecInsights == InitInsights /\ [][NextInsights]_vars

InsightsDone == done /\ fn = "generatePartnershipInsights"

\* which of the five rules of C26 hold for the call's arguments
FlagRules ==
    {k \in 1..5 :
        CASE k = 1 -> args.creatorFusionScore.breakdown.engagement < 40
          [] k = 2 -> args.analytics.postsPerWeek < 50
          [] k = 3 -> args.analytics.postingConsistency < 30
          [] k = 4 -> /\ args.analytics.viewDistribution # Null
                      /\ args.analytics.viewDistribution.skewRatio > 300
          [] k = 5 -> args.analytics.viewToSubRatio < 1000}

FlagNames ==
    <<"Below-average engagement for tier", "Infrequent posting (<1 per 2 weeks)",
      "Irregular posting schedule", "High view variance", "Low view-to-sub ratio">>

\* C26: recommendedForBrands is true if and only if the composite score is
\* >= 50 and at most one flag was emitted, the flags being exactly those of
\* the five rules: engagement sub-score < 40, posts per week < 0.5,
\* consistency < 30, skew ratio > 3, view-to-subscriber ratio < 10.
C26_RecommendedIffScoreAndFlags ==
    InsightsDone =>
        /\ Len(ret.flags) = Cardinality(FlagRules)
        /\ \A k \in 1..5 :
              (k \in FlagRules) <=> (\E i \in 1..Len(ret.flags) : ret.flags[i] = FlagNames[k])
        /\ ret.recommendedForBrands
              <=> (args.creatorFusionScore.score >= 50 /\ Cardinality(FlagRules) <= 1)

\* a score of exactly 50 with exactly one flag: recommended
C26_Witness ==
    /\ InsightsDone
    /\ args.creatorFusionScore.score = 50
    /\ ret.flags = <<"Irregular posting schedule">>
    /\ ret.recommendedForBrands

\* a score of 100 with two flags: not recommended
C26_WitnessTwoFlags ==
    /\ InsightsDone
    /\ args.creatorFusionScore.score = 100
    /\ Len(ret.flags) = 2
    /\ ~ret.recommendedForBrands



-----------------------------------------------------------------------------
(* YouTubeClient.resolveChannelId and the handle cache                     *)

\* a string value, as its characters
Text(chars) == [t |-> "text", chars |-> chars]

\* line 128: /[<>"{}|\\^`\x00-\x1f]/ (of the control characters, those a
\* string of this model can hold; no input tried holds a backquote)
ForbiddenChars ==
    {"<", ">", "\"", "{", "}", "|", "\\", "^", "\n", "\t", "\r", "\f"}
HasForbiddenChar(str) == \E i \in 1..Len(str) : str[i] \in ForbiddenChars

\* [\w-] and [\w.-] on lower-cased text
ChannelIdChars == WordChars \cup {"-"}
HandleChars == WordChars \cup {".", "-"}

\* line 131: /^UC[\w-]{22}$/ (no i flag: UC in upper case, \w in both cases)
IsChannelId(str) ==
    /\ Len(str) = 24
    /\ str[1] = "U"
    /\ str[2] = "C"
    /\ \A i \in 3..24 : ToLowerChar(str[i]) \in ChannelIdChars

EmptyPattern == Cat(<<>>)

\* line 134: /youtube\.com\/channel\/(UC[\w-]{22})/i
CHANNEL_URL_REGEX ==
    Capturing(Lit(<<"y", "o", "u", "t", "u", "b", "e", ".", "c", "o", "m", "/", "c", "h", "a", "n", "n", "e", "l", "/">>),
              Cat(<<Lit(<<"u", "c">>), Rep(Cls(ChannelIdChars), 22, 22)>>), EmptyPattern, FALSE)

\* line 139: /youtube\.com\/@([\w.-]+)/i
HANDLE_URL_REGEX ==
    Capturing(Lit(<<"y", "o", "u", "t", "u", "b", "e", ".", "c", "o", "m", "/", "@">>), Plus(Cls(HandleChars)), EmptyPattern, FALSE)

\* line 140: /youtube\.com\/c\/([\w.-]+)/i
CUSTOM_URL_REGEX ==
    Capturing(Lit(<<"y", "o", "u", "t", "u", "b", "e", ".", "c", "o", "m", "/", "c", "/">>), Plus(Cls(HandleChars)), EmptyPattern, FALSE)

\* match[1] of str.match(rx), for a match m found on the lower-cased text
Captured(str, m) == SubSeq(str, m.from + 1, m.to)

\* line 152: /^[\w.-]+$/
IsHandleText(handle) ==
    /\ handle # <<>>
    /\ \A i \in 1..Len(handle) : ToLowerChar(handle[i]) \in HandleChars

\* what the lines before the cache make of the input: null returned, a
\* channel id returned, or a handle to look up
NoChannel == [kind |-> "none"]
KnownId(id) == [kind |-> "id", id |-> id]
Handle(handle) == [kind |-> "handle", handle |-> handle]

\* lines 138-150
HandleFrom(trimmed, handleMatch, customMatch) ==
    IF handleMatch.found THEN Text(Captured(trimmed, handleMatch))
    ELSE IF customMatch.found THEN Text(Captured(trimmed, customMatch))
    ELSE IF trimmed[1] = "@" THEN Text(SubSeq(trimmed, 2, Len(trimmed)))
    ELSE IF ~includes(trimmed, <<"/">>) /\ ~includes(trimmed, <<".">>) THEN Text(trimmed)
    ELSE Null

\* line 152
CheckHandle(handle) ==
    IF handle.t = "null" THEN NoChannel
    ELSE IF handle.chars = <<>> \/ Len(handle.chars) > 100 \/ ~IsHandleText(handle.chars)
    THEN NoChannel
    ELSE Handle(handle.chars)

\* lines 134-152
ParseUrl(trimmed, channelIdMatch, handleMatch, customMatch) ==
    IF channelIdMatch.found THEN KnownId(Captured(trimmed, channelIdMatch))
    ELSE CheckHandle(HandleFrom(trimmed, handleMatch, customMatch))

\* lines 125-152
ParseTrimmed(trimmed, lower) ==
    IF trimmed = <<>> \/ Len(trimmed) > 300 THEN NoChannel
    ELSE IF HasForbiddenChar(trimmed) THEN NoChannel
    ELSE IF IsChannelId(trimmed) THEN KnownId(trimmed)
    ELSE ParseUrl(trimmed, Exec(CHANNEL_URL_REGEX, lower, 0),
                  Exec(HANDLE_URL_REGEX, lower, 0), Exec(CUSTOM_URL_REGEX, lower, 0))

\* lines 123-152
ParseInput(input) ==
    IF input.t # "text" \/ input.chars = <<>> THEN NoChannel
    ELSE ParseTrimmed(trim(input.chars), toLowerCase(trim(input.chars)))

\* Mutant: the cache keyed by the handle as written.
CacheKey_AsWritten(handle) == handle

\* line 155
CacheKey(handle) == toLowerCase(handle)

\* The inputs tried: one handle in its input forms and in several cases, a
\* second handle, a channel id and a channel URL, and inputs that are
\* refused (a bare name with a dot, a handle followed by a path, a
\* forbidden character, the empty string, no string).
ChannelInputSamples ==
    << Text(<<"@", "M", "r", "B", "e", "a", "s", "t">>),
       Text(<<"m", "r", "b", "e", "a", "s", "t">>),
       Text(<<"h", "t", "t", "p", "s", ":", "/", "/", "w", "w", "w", ".", "y", "o", "u", "t", "u", "b", "e", ".", "c", "o", "m", "/", "@", "M", "R", "B", "E", "A", "S", "T", "/", "v", "i", "d", "e", "o", "s">>),
       Text(<<" ", "y", "o", "u", "t", "u", "b", "e", ".", "c", "o", "m", "/", "c", "/", "M", "r", "B", "e", "a", "s", "t", " ">>),
       Text(<<"@", "V", "e", "r", "i", "t", "a", "s", "i", "u", "m">>),
       Text(<<"U", "C", "-", "l", "H", "J", "Z", "R", "3", "G", "q", "x", "m", "2", "4", "_", "V", "d", "_", "A", "J", "5", "Y", "w">>),
       Text(<<"h", "t", "t", "p", "s", ":", "/", "/", "y", "o", "u", "t", "u", "b", "e", ".", "c", "o", "m", "/", "c", "h", "a", "n", "n", "e", "l", "/", "U", "C", "-", "l", "H", "J", "Z", "R", "3", "G", "q", "x", "m", "2", "4", "_", "V", "d", "_", "A", "J", "5", "Y", "w">>),
       Text(<<"m", "r", ".", "b", "e", "a", "s", "t">>),
       Text(<<"@", "M", "r", "B", "e", "a", "s", "t", "/", "v", "i", "d", "e", "o", "s">>),
       Text(<<"<", "m", "r", "b", "e", "a", "s", "t", ">">>),
       Text(<<>>),
       Undefined >>

ChannelInputIndexes == 1..Len(ChannelInputSamples)

\* ParseInput tabulated over the inputs tried
ParseTable == [k \in ChannelInputIndexes |-> ParseInput(ChannelInputSamples[k])]

\* The channel ids a response can carry.
ResponseIds == {<<"U", "C", "f", "i", "r", "s", "t">>, <<"U", "C", "s", "e", "c", "o", "n", "d">>}

\* The bodies of a successful channels response: no items field, an empty
\* list, or one item.
ResponseBodies ==
    {[items |-> Undefined], [items |-> [t |-> "arr", items |-> <<>>]]}
    \cup {[items |-> [t |-> "arr", items |-> <<[id |-> id]>>]] : id \in ResponseIds}

\* data.items?.length > 0
HasItems(data) == data.items.t = "arr" /\ Len(data.items.items) > 0

\* The most calls of resolveChannelId in a run.
MaxLookups == 3

\* the statuses and failures tried for the requests of resolveChannelId
LookupStatuses == {"403"}
LookupFailures == {"503"}

NewRequest(quotaCost) ==
    [state |-> "trying", quotaCost |-> quotaCost, attempt |-> 0,
     outcomes |-> <<>>, sleeps |-> <<>>]

Thrown == [t |-> "thrown"]

\* One ended call of resolveChannelId: its input, what the input was parsed
\* to, the value returned (or Thrown), the calls of _request it made, and
\* the client's counters before and after.
Ended(input, parsed, answer, issued, quotaBefore, countBefore, quotaAfter, countAfter) ==
    [input |-> input, parsed |-> parsed, answer |-> answer, issued |-> issued,
     quotaBefore |-> quotaBefore, countBefore |-> countBefore,
     quotaAfter |-> quotaAfter, countAfter |-> countAfter]

InitResolve ==
    /\ ModuleIdle
    /\ BatchIdle
    /\ ClientIdle
    /\ fn = "resolveChannelId"
    /\ args = [t |-> "input"]
    /\ ret = NoResult
    /\ done = FALSE

ResolveFrame == UNCHANGED <<moduleVars, batchVars, paging, fn, args, done>>

\* a return before the first await: no request, the cache untouched
ReturnsAtOnce(input, parsed, answer) ==
    /\ ret' = answer
    /\ lookups' = Append(lookups, Ended(input, parsed, answer, 0, quotaUsed,
                                        requestCount, quotaUsed, requestCount))
    /\ UNCHANGED <<quotaUsed, requestCount, request, succeeded, calls,
                   channelIdCache, lookup>>

\* line 161: await this._request('channels', {forHandle: handle}, 1)
AwaitsForHandle(input, parsed, cacheKey) ==
    /\ lookup' = [state |-> "forHandle", input |-> input, parsed |-> parsed,
                  cacheKey |-> cacheKey, issued |-> 1,
                  quotaBefore |-> quotaUsed, countBefore |-> requestCount]
    /\ request' = NewRequest(1)
    /\ calls' = calls + 1
    /\ ret' = NoResult
    /\ UNCHANGED <<quotaUsed, requestCount, succeeded, channelIdCache, lookups>>

\* lines 123-161 for an input parsed to a handle
LooksUp(input, parsed, cacheKey) ==
    IF cacheKey \in DOMAIN channelIdCache
    THEN ReturnsAtOnce(input, parsed, channelIdCache[cacheKey])
    ELSE AwaitsForHandle(input, parsed, cacheKey)

ResolveParsed(input, parsed) ==
    CASE parsed.kind = "none"   -> ReturnsAtOnce(input, parsed, Null)
      [] parsed.kind = "id"     -> ReturnsAtOnce(input, parsed, Text(parsed.id))
      [] parsed.kind = "handle" -> LooksUp(input, parsed, CacheKey(parsed.handle))

\* client.resolveChannelId(input), up to its return or its first await
ResolveChannelId(input) ==
    /\ lookup = NoLookup
    /\ ~InFlight
    /\ Len(lookups) < MaxLookups
    /\ ResolveParsed(input, ParseTable[input])
    /\ ResolveFrame

\* this._channelIdCache.set(cacheKey, answer); return answer
StoresAndReturns(answer) ==
    /\ channelIdCache' = [k \in DOMAIN channelIdCache \cup {lookup.cacheKey} |->
                            IF k = lookup.cacheKey THEN answer ELSE channelIdCache[k]]
    /\ ret' = answer
    /\ lookups' = Append(lookups, Ended(lookup.input, lookup.parsed, answer, lookup.issued,
                                        lookup.quotaBefore, lookup.countBefore,
                                        quotaUsed, requestCount))
    /\ lookup' = NoLookup
    /\ UNCHANGED <<quotaUsed, requestCount, request, succeeded, calls>>

\* line 169: await this._request('channels', {forUsername: handle}, 1)
AwaitsForUsername ==
    /\ lookup' = [lookup EXCEPT !.state = "forUsername", !.issued = 2]
    /\ request' = NewRequest(1)
    /\ calls' = calls + 1
    /\ UNCHANGED <<quotaUsed, requestCount, succeeded, channelIdCache, lookups, ret>>

\* the awaited request returned data: lines 162-166 after forHandle, lines
\* 170-177 after forUsername
ResolveContinues(data) ==
    /\ lookup # NoLookup
    /\ request.state = "returned"
    /\ IF HasItems(data) THEN StoresAndReturns(Text(data.items.items[1].id))
       ELSE IF lookup.state = "forHandle" THEN AwaitsForUsername
       ELSE StoresAndReturns(Null)
    /\ ResolveFrame

\* the awaited request threw: resolveChannelId throws, nothing is stored
ResolveThrows ==
    /\ lookup # NoLookup
    /\ request.state = "threw"
    /\ ret' = Thrown
    /\ lookups' = Append(lookups, Ended(lookup.input, lookup.parsed, Thrown, lookup.issued,
                                        lookup.quotaBefore, lookup.countBefore,
                                        quotaUsed, requestCount))
    /\ lookup' = NoLookup
    /\ UNCHANGED <<quotaUsed, requestCount, request, succeeded, calls, channelIdCache>>
    /\ ResolveFrame

NextResolve ==
    \/ \E input \in ChannelInputIndexes : ResolveChannelId(input)
    \/ AttemptSucceeds
    \/ \E status \in LookupStatuses : AttemptRejected(status)
    \/ \E failure \in LookupFailures : AttemptFails(failure)
    \/ Wake
    \/ \E data \in ResponseBodies : ResolveContinues(data)
    \/ ResolveThrows

SpecResolve == InitResolve /\ [][NextResolve]_vars

\* the ended calls that looked a handle up (or found it in the cache)
HandleCalls == {j \in 1..Len(lookups) : lookups[j].parsed.kind = "handle"}

\* the same handle, compared without case
SameHandle(i, j) ==
    toLowerCase(lookups[i].parsed.handle) = toLowerCase(lookups[j].parsed.handle)

\* the calls before call j that completed a lookup of the handle of call j
CompletedBefore(j) ==
    {i \in HandleCalls : i < j /\ SameHandle(i, j) /\ lookups[i].answer # Thrown}

\* the lower-cased handles whose lookup completed
CompletedHandles ==
    {toLowerCase(lookups[i].parsed.handle) :
        i \in {j \in HandleCalls : lookups[j].answer # Thrown}}

\* C27: once resolveChannelId has completed a lookup for a handle (found
\* or not found), every later call on the same client for the same handle,
\* compared without case and in any accepted input form (@handle, bare
\* name, handle URL), returns the same answer without a request, leaving
\* quotaUsed and requestCount unchanged; a lookup that throws stores
\* nothing in the cache.
C27_CompletedLookupIsCached ==
    /\ \A j \in HandleCalls :
         CompletedBefore(j) # {} =>
            /\ lookups[j].issued = 0
            /\ \A i \in CompletedBefore(j) : lookups[j].answer = lookups[i].answer
            /\ lookups[j].quotaAfter = lookups[j].quotaBefore
            /\ lookups[j].countAfter = lookups[j].countBefore
    /\ \A j \in HandleCalls :
         CompletedBefore(j) = {} => lookups[j].issued >= 1
    /\ DOMAIN channelIdCache = CompletedHandles

\* a found handle is answered from the cache when asked again in another
\* input form and another case
C27_Witness ==
    \E i, j \in HandleCalls :
        /\ i < j
        /\ SameHandle(i, j)
        /\ lookups[i].input # lookups[j].input
        /\ lookups[i].parsed.handle # lookups[j].parsed.handle
        /\ lookups[i].answer \notin {Thrown, Null}
        /\ lookups[i].issued = 2
        /\ lookups[j].issued = 0
        /\ lookups[j].answer = lookups[i].answer

\* a lookup that threw after its first request was charged, then the same
\* handle looked up again with a request
C27_WitnessThrown ==
    \E i, j \in HandleCalls :
        /\ i < j
        /\ SameHandle(i, j)
        /\ lookups[i].answer = Thrown
        /\ lookups[i].quotaAfter = lookups[i].quotaBefore + 1
        /\ lookups[j].issued >= 1
        /\ lookups[j].answer = Null

-----------------------------------------------------------------------------
(* The core functions on degenerate inputs, called in the order of         *)
(* processChannel (main.js, steps 5 and 9)                                 *)

\* The longest degenerate video list.
MaxDegenerateVideos == 3

\* views, likes and comments of the videos tried: no views with and
\* without likes, and two ordinary videos
DegenerateStats == {<<0, 0, 0>>, <<0, 3, 1>>, <<100, 5, 1>>, <<333, 7, 0>>}

\* a ParsedVideo with the fields the functions read; engagement as
\* parseVideo leaves it
DegenerateVideo(id, offset, stat) ==
    [videoId |-> id, publishedAt |-> DateTable["2025-01-01T00:00:00Z"] + offset,
     views |-> stat[1], likes |-> stat[2], comments |-> stat[3],
     engagement |-> IF stat[1] > 0 THEN Q((stat[2] + stat[3]) * 100, stat[1])
                                   ELSE QInt(0)]

\* The empty list, every single video, the lists published at one time,
\* and the lists without a view one day apart or at one time.
DegenerateLists ==
    {<<>>}
    \cup {<<DegenerateVideo(1, offset, stat)>> : offset \in {0, 48}, stat \in DegenerateStats}
    \cup UNION {{[i \in 1..n |-> DegenerateVideo(i, 24, stats[i])]
                   : stats \in [1..n -> DegenerateStats]}
                : n \in 2..MaxDegenerateVideos}
    \cup UNION {{[i \in 1..n |-> DegenerateVideo(i, HoursPerDay * (n - i), stats[i])]
                   : stats \in [1..n -> {<<0, 0, 0>>, <<0, 3, 1>>}]}
                : n \in 2..MaxDegenerateVideos}

\* channels without subscribers (no count, or a count of 0) and with some
DegenerateChannels ==
    {[statistics |-> [t |-> "obj", subscriberCount |-> count], topicDetails |-> topics]
       : count \in {Undefined, StrNum(0), StrNum(500)},
         topics \in {Undefined,
                     [t |-> "obj",
                      topicCategories |-> [t |-> "arr", items |-> <<TopicSamples[2]>>]]}}

InitDegenerate ==
    /\ StateIdle
    /\ done = FALSE
    /\ ret = NoResult
    /\ fn = "analyzeVideos"
    /\ args \in [parsed : DegenerateLists, channelData : DegenerateChannels,
                 analytics : {NoResult}, creatorFusionScore : {NoResult},
                 partnership : {NoResult}]

\* main.js line 172, for a count that is absent or a decimal integer
SubscribersOf(channelData) == safeInt(SubscriberCountOf(channelData))

\* main.js line 199
StageAnalyzeVideos ==
    /\ ~done
    /\ fn = "analyzeVideos"
    /\ ret' = analyzeVideos(args.parsed, SubscribersOf(args.channelData))
    /\ args' = [args EXCEPT !.analytics = ret']
    /\ fn' = "calculateCreatorFusionScore"
    /\ UNCHANGED done
    /\ UNCHANGED stateVars

\* main.js line 200
StageCalculateScore ==
    /\ ~done
    /\ fn = "calculateCreatorFusionScore"
    /\ ret' = calculateCreatorFusionScore(args.analytics, args.channelData.statistics)
    /\ args' = [args EXCEPT !.creatorFusionScore = ret']
    /\ fn' = "generatePartnershipInsights"
    /\ UNCHANGED done
    /\ UNCHANGED stateVars

\* main.js line 201
StagePartnershipInsights ==
    /\ ~done
    /\ fn = "generatePartnershipInsights"
    /\ ret' = generatePartnershipInsights(args.analytics, args.channelData,
                                          args.creatorFusionScore)
    /\ args' = [args EXCEPT !.partnership = ret']
    /\ fn' = "generateRateCard"
    /\ UNCHANGED done
    /\ UNCHANGED stateVars

\* main.js lines 227-235, without a sponsorship report
StageRateCard ==
    /\ ~done
    /\ fn = "generateRateCard"
    /\ ret' = generateRateCard([avgViews |-> args.analytics.avgViews,
                                tier |-> args.creatorFusionScore.tier,
                                creatorFusionScore |-> args.creatorFusionScore.score,
                                contentCategories |-> args.partnership.contentCategories,
                                sponsorship |-> Null])
    /\ done' = TRUE
    /\ UNCHANGED <<fn, args>>
    /\ UNCHANGED stateVars

NextDegenerate ==
    \/ StageAnalyzeVideos
    \/ StageCalculateScore
    \/ StagePartnershipInsights
    \/ StageRateCard

SpecDegenerate == InitDegenerate /\ [][NextDegenerate]_vars

AllFinite(record, fields) == \A f \in fields : isFinite(record[f])

RateFields == {"low", "mid", "high"}

SummaryFinite(summary) ==
    summary = Null \/ AllFinite(summary, {"views", "likes", "comments", "engagementRate"})

\* every number of an AnalyticsResult
AnalyticsFinite(analytics) ==
    /\ AllFinite(analytics, {"videoCount", "engagementRate", "avgViews", "avgLikes",
                             "avgComments", "likeToViewRatio", "commentToViewRatio",
                             "viewToSubRatio", "postsPerWeek", "postingConsistency"})
    /\ SummaryFinite(analytics.topPerformingVideo)
    /\ SummaryFinite(analytics.worstPerformingVideo)
    /\ \/ analytics.viewDistribution = Null
       \/ AllFinite(analytics.viewDistribution, {"median", "mean", "max", "min", "skewRatio"})
    /\ analytics.videoCount > 0 => isFinite(analytics.dateRange.spanDays)

ScoreFinite(creatorFusionScore) ==
    /\ creatorFusionScore.score \in 0..100
    /\ \A f \in DOMAIN creatorFusionScore.breakdown : creatorFusionScore.breakdown[f] \in 0..100

InsightsFinite(partnership) ==
    /\ isFinite(partnership.estimatedSponsoredPostValue.low)
    /\ isFinite(partnership.estimatedSponsoredPostValue.high)
    /\ partnership.estimatedSponsoredPostValue.low >= 0
    /\ partnership.recommendedForBrands \in BOOLEAN

RateCardFinite(rateCard) ==
    /\ AllFinite(rateCard.estimatedIntegrationRate, RateFields)
    /\ AllFinite(rateCard.estimatedDedicatedRate, RateFields)
    /\ AllFinite(rateCard.estimatedShortsRate, RateFields)
    /\ AllFinite(rateCard.usageRightsAddon, RateFields)
    /\ rateCard.estimatedIntegrationRate.low > 0
    /\ isFinite(rateCard.adjustments.niche.multiplier)
    /\ isFinite(rateCard.adjustments.engagement.multiplier)
    /\ isFinite(rateCard.adjustments.combined)

NoViews(parsed) == \A i \in 1..Len(parsed) : parsed[i].views = 0
OneTime(parsed) == \A i, j \in 1..Len(parsed) : parsed[i].publishedAt = parsed[j].publishedAt

\* C28: on degenerate inputs (an empty video list, a single video, videos
\* without a view, videos all published at one time, a channel without
\* subscribers) analyzeVideos, calculateCreatorFusionScore,
\* generatePartnershipInsights and generateRateCard return a defined
\* result whose numeric fields are all finite: none raises, none yields
\* NaN or Infinity.
C28_DegenerateInputsGiveFiniteResults ==
    /\ args.analytics # NoResult =>
         /\ AnalyticsFinite(args.analytics)
         /\ Len(args.parsed) = 0 => args.analytics = emptyAnalytics
         /\ NoViews(args.parsed) =>
              /\ args.analytics.engagementRate = 0
              /\ args.analytics.avgViews = 0
         /\ SubscribersOf(args.channelData) = 0 => args.analytics.viewToSubRatio = 0
    /\ args.creatorFusionScore # NoResult => ScoreFinite(args.creatorFusionScore)
    /\ args.partnership # NoResult => InsightsFinite(args.partnership)
    /\ done => RateCardFinite(ret)

\* all four functions have returned for videos without a view, published
\* at one time, on a channel without subscribers
C28_Witness ==
    /\ done
    /\ fn = "generateRateCard"
    /\ Len(args.parsed) = MaxDegenerateVideos
    /\ NoViews(args.parsed)
    /\ OneTime(args.parsed)
    /\ SubscribersOf(args.channelData) = 0
    /\ args.analytics.postsPerWeek = 2100
    /\ args.analytics.viewDistribution.skewRatio = 0

\* and for the empty list
C28_WitnessEmpty ==
    /\ done
    /\ fn = "generateRateCard"
    /\ args.parsed = <<>>
    /\ args.analytics.viewDistribution = Null
    /\ ret.estimatedIntegrationRate.low > 0

\* and for a single video with views
C28_WitnessSingle ==
    /\ done
    /\ fn = "generateRateCard"
    /\ Len(args.parsed) = 1
    /\ args.analytics.avgViews = 333
    /\ args.analytics.worstPerformingVideo = Null
    /\ args.analytics.postingConsistency = 100

-----------------------------------------------------------------------------
(* Claims on the counters of the batch loop                                *)

\* the calls of processChannel that ended with the given outcome
AttemptsWith(outcome) == {i \in 1..Len(attempted) : attempted[i].outcome = outcome}

\* the records a call of processChannel leaves in the dataset
RecordsOf(attempt) ==
    CASE attempt.outcome = "result" -> <<ResultRecord(attempt.channelInput)>>
      [] attempt.outcome = "null"   -> <<>>
      [] attempt.outcome = "throws" -> <<FailureOf(attempt)>>

RECURSIVE RecordsOfAll(_)
RecordsOfAll(attempts) ==
    IF attempts = <<>> THEN <<>>
    ELSE RecordsOf(Head(attempts)) \o RecordsOfAll(Tail(attempts))

\* C29: when the batch loop ends, processed + skipped + failed is the
\* number of input channels: each channel is counted in exactly one of the
\* three counters; a skipped channel pushes no dataset record, a processed
\* channel exactly one success record and a failed channel exactly one
\* failure record.
C29_CountersPartitionChannels ==
    loop = "ended" =>
        /\ processed + skipped + failed = Len(channels)
        /\ Len(attempted) = Len(channels)
        /\ \A i \in 1..Len(channels) : attempted[i].channelInput = channels[i]
        /\ processed = Cardinality(AttemptsWith("result"))
        /\ skipped = Cardinality(AttemptsWith("null"))
        /\ failed = Cardinality(AttemptsWith("throws"))
        /\ dataset = RecordsOfAll(attempted)
        /\ Len(dataset) = processed + failed

\* three channels, one processed, one skipped and one failed, left two
\* records
C29_Witness ==
    /\ loop = "ended"
    /\ Len(channels) = 3
    /\ processed = 1
    /\ skipped = 1
    /\ failed = 1
    /\ attempted[2].outcome = "null"
    /\ Len(dataset) = 2

\* a channel whose result was not taken by the dataset counts as failed
C29_WitnessPushRejected ==
    /\ loop = "ended"
    /\ \E i \in 1..Len(attempted) : attempted[i].error = PushError
    /\ processed = 0
    /\ failed = Len(channels)

-----------------------------------------------------------------------------
(* YouTubeClient.getRecentVideoIds: the page loop                          *)

\* The largest maxResults tried.
MaxPageResults == 60

\* maxResults of the calls: none, a few, one full page, and more than a page
MaxResultsSamples == {0, 1, 2, 3, 30, 50, 51, MaxPageResults}

\* Mutant: the page size without its cap.
PerPage_Uncapped(maxResults, collected) == maxResults - collected

\* line 208: Math.min(50, maxResults - videos.length)
PerPage(maxResults, collected) == Min(50, maxResults - collected)

\* the items of a page, numbered on from those collected
PageItems(collected, count) ==
    [i \in 1..count |->
        [contentDetails |-> [videoId |-> collected + i, videoPublishedAt |-> collected + i]]]

\* The numbers of items a page can hold when perPage were asked for: none,
\* a few, about as many as asked, and one more than asked.
PageCounts(perPage) == {0, 1, 2, perPage - 1, perPage, perPage + 1} \cap 0..(perPage + 1)

NextTokens == {Undefined, [t |-> "text", chars |-> <<"n", "e", "x", "t">>]}

\* The bodies of a successful playlistItems response.
PageResponses(perPage, collected) ==
    {[items |-> Undefined, nextPageToken |-> token] : token \in NextTokens}
    \cup {[items |-> [t |-> "arr", items |-> PageItems(collected, count)],
           nextPageToken |-> token]
          : count \in PageCounts(perPage), token \in NextTokens}

InitPages ==
    /\ StateIdle
    /\ done = FALSE
    /\ ret = NoResult
    /\ fn = "getRecentVideoIds"
    /\ args \in [maxResults : MaxResultsSamples]

PagesFrame ==
    UNCHANGED <<moduleVars, batchVars, resolveVars, fn, args, quotaUsed, requestCount,
                succeeded>>

\* line 230: return videos
ReturnsVideos(videos, requests, overfull, lastPage) ==
    /\ paging' = [state |-> "returned", videos |-> videos, requests |-> requests,
                  overfull |-> overfull, lastPage |-> lastPage,
                  perPage |-> 0, collected |-> Len(videos)]
    /\ ret' = [t |-> "arr", items |-> videos]
    /\ done' = TRUE
    /\ UNCHANGED <<request, calls>>

\* lines 208-215: the next page is asked for
AwaitsPage(videos, pageToken, requests, overfull, lastPage) ==
    /\ paging' = [state |-> "awaiting", videos |-> videos, requests |-> requests + 1,
                  overfull |-> overfull, lastPage |-> lastPage,
                  perPage |-> PerPage(args.maxResults, Len(videos)),
                  collected |-> Len(videos)]
    /\ request' = NewRequest(1)
    /\ calls' = calls + 1
    /\ UNCHANGED <<ret, done>>

\* line 207: while (videos.length < maxResults)
WhileLoop(videos, pageToken, requests, overfull, lastPage) ==
    IF Len(videos) < args.maxResults
    THEN AwaitsPage(videos, pageToken, requests, overfull, lastPage)
    ELSE ReturnsVideos(videos, requests, overfull, lastPage)

\* what is known of the last page: nothing before the first one
NoPage == [count |-> 0, token |-> FALSE, first |-> TRUE]
PageSeen(count, token) == [count |-> count, token |-> token, first |-> FALSE]

\* client.getRecentVideoIds(uploadsPlaylistId, maxResults), up to its
\* return or its first await
GetRecentVideoIds ==
    /\ paging = NoPaging
    /\ ~done
    /\ fn = "getRecentVideoIds"
    /\ WhileLoop(<<>>, Undefined, 0, FALSE, NoPage)
    /\ PagesFrame

\* lines 219-224: one video per item
Pushed(videos, items) ==
    videos \o [i \in 1..Len(items) |->
                 [videoId |-> items[i].contentDetails.videoId,
                  publishedAt |-> items[i].contentDetails.videoPublishedAt]]

\* lines 219-227 for a page with items
TakesPage(videos, token, requests, overfull, lastPage) ==
    IF token.t = "undefined"
    THEN ReturnsVideos(videos, requests, overfull, lastPage)
    ELSE WhileLoop(videos, token, requests, overfull, lastPage)

\* the awaited page arrived: lines 217-228
PageArrives(data) ==
    /\ paging.state = "awaiting"
    /\ request.state = "returned"
    /\ IF ~HasItems(data)
       THEN ReturnsVideos(paging.videos, paging.requests, paging.overfull,
                          PageSeen(0, data.nextPageToken.t # "undefined"))
       ELSE TakesPage(Pushed(paging.videos, data.items.items), data.nextPageToken,
                      paging.requests,
                      paging.overfull \/ Len(data.items.items) > paging.perPage,
                      PageSeen(Len(data.items.items), data.nextPageToken.t # "undefined"))
    /\ PagesFrame

\* any body can answer the page request
AwaitedPageArrives ==
    /\ paging.state = "awaiting"
    /\ \E data \in PageResponses(paging.perPage, paging.collected) : PageArrives(data)

\* Every page request succeeds.
NextPages ==
    \/ GetRecentVideoIds
    \/ AttemptSucceeds
    \/ AwaitedPageArrives

SpecPages == InitPages /\ [][NextPages]_vars

\* every await settles
SpecPagesFair == SpecPages /\ WF_vars(NextPages)

\* What holds while getRecentVideoIds runs and when it has returned.
PagesBounded ==
    paging # NoPaging =>
        /\ paging.requests <= args.maxResults
        /\ paging.state = "awaiting" =>
             /\ paging.perPage >= 1
             /\ paging.perPage <= 50
             /\ paging.perPage <= args.maxResults - paging.collected
             /\ \/ paging.lastPage.first
                \/ paging.lastPage.count > 0 /\ paging.lastPage.token
        /\ paging.state = "returned" =>
             /\ ret.items = paging.videos
             /\ \/ Len(ret.items) >= args.maxResults
                \/ ~paging.lastPage.first /\ paging.lastPage.count = 0
                \/ ~paging.lastPage.first /\ ~paging.lastPage.token
             /\ ~paging.overfull => Len(ret.items) <= args.maxResults
             /\ \A i \in 1..Len(ret.items) : ret.items[i].videoId = i

\* C30: getRecentVideoIds terminates for every maxResults >= 0 and every
\* sequence of successful page responses: it stops at the first page that
\* is empty or has no nextPageToken, or when maxResults ids are collected;
\* it never asks for more than min(50, maxResults - collected) items per
\* page, issues at most maxResults page requests, and returns at most
\* maxResults ids when each page holds no more items than requested.
C30_PageLoopTerminates ==
    /\ []PagesBounded
    /\ <>(paging.state = "returned")

\* maxResults one-item pages were asked for, one request each
C30_Witness ==
    /\ paging.state = "returned"
    /\ args.maxResults = 3
    /\ paging.requests = 3
    /\ Len(ret.items) = 3
    /\ requestCount = 3

\* more than a page: 50 items asked for, then the rest
C30_WitnessSecondPage ==
    /\ paging.state = "awaiting"
    /\ args.maxResults = MaxPageResults
    /\ paging.collected = 50
    /\ paging.perPage = MaxPageResults - 50
    /\ paging.requests = 2

\* maxResults = 0: returned at once, without a request
C30_WitnessNone ==
    /\ paging.state = "returned"
    /\ args.maxResults = 0
    /\ ret.items = <<>>
    /\ calls = 0

\* a page with more items than asked for brings more than maxResults ids
C30_WitnessOverfull ==
    /\ paging.state = "returned"
    /\ paging.overfull
    /\ Len(ret.items) > args.maxResults

=============================================================================
